---------------------------- MODULE Spec2Model ----------------------------
(***************************************************************************)
(* XJTLU academic navigator: the dispatcher (MCP/dispatcher.py), the       *)
(* course service (service/course_servicec.py), the planning service       *)
(* (service/planning_service.py) and the AI service (service/ai_service.py)*)
(* as a state machine.  Python strings are TLA+ strings, so substring      *)
(* tests, lower(), strip() and split() are computed character by           *)
(* character; dicts are records, and d.get(k, v) is Get(d, k, v).          *)
(***************************************************************************)
EXTENDS Integers, Sequences, FiniteSets, TLC

VARIABLES
    courses,        \* CourseService.courses: the catalog loaded at construction
    keyword_index,  \* CourseService.keyword_index: subject -> courses
    use_mock,       \* AIService.use_mock
    app_env,        \* settings.APP_ENV
    pc,             \* "idle", or the name of the call that has just returned
    call,           \* the arguments of that call
    result          \* what that call returned

vars == <<courses, keyword_index, use_mock, app_env, pc, call, result>>

(***************************************************************************)
(* Bounds of the model.                                                    *)
(***************************************************************************)
MaxCatalog == 3      \* courses in a catalog
MaxCompleted == 2    \* codes in completed_courses
MaxBudgetUnits == 3  \* available_credits ranges over 0, 5, .., 5 * MaxBudgetUnits
MaxWords == 2        \* vocabulary words in a query
MaxLargeCatalog == 11 \* courses in a catalog of electives

\* None where a dict is expected (a lookup that found nothing, no call, no result)
None == [py |-> "None"]

\* None where a str is expected, as a reserved string that no text equals
NoneStr == "<None>"

IsStr(v) == v # NoneStr

(***************************************************************************)
(* The configuration tables of the services.                               *)
(***************************************************************************)
\* AcademicDispatcher.INTENT_KEYWORDS: a dict, iterated in declaration order
INTENT_KEYWORDS == <<
    [intent |-> "course_explanation",
     keywords |-> <<"explain", "what is", "about", "describe", "introduction", "tell me", "overview">>],
    [intent |-> "semester_planning",
     keywords |-> <<"plan", "recommend", "suggest", "build", "design", "roadmap", "schedule", "timetable">>],
    [intent |-> "career_alignment",
     keywords |-> <<"career", "job", "future", "hku", "kcl", "target", "path", "direction">>],
    [intent |-> "prerequisite_check",
     keywords |-> <<"prerequisite", "before", "need to take", "require", "must take", "pre-req">>],
    [intent |-> "workload_assessment",
     keywords |-> <<"workload", "difficult", "hard", "time", "balance", "manage", "hours", "effort">>]
>>

\* the keys of SUBJECT_KEYWORDS and of CourseService.subject_keywords, in order
Subjects == <<"eco", "stat", "fin", "sustain", "math">>

\* AcademicDispatcher.SUBJECT_KEYWORDS
SUBJECT_KEYWORDS ==
    [eco |-> <<"eco", "economics", "micro", "macro", "economic", "econ">>,
     stat |-> <<"stat", "econometrics", "data", "statistics", "quantitative", "regression", "metrics">>,
     fin |-> <<"fin", "finance", "monetary", "financial", "banking", "investment", "wealth">>,
     sustain |-> <<"sustain", "esg", "climate", "environmental", "development", "green", "social">>,
     math |-> <<"math", "maths", "calculus", "mathematical", "linear", "algebra", "probability">>]

\* AcademicDispatcher.SUBJECT_EXPLANATIONS ("->" stands for the arrow of line 54)
SUBJECT_EXPLANATIONS ==
    [fin |-> "Finance-focused courses in XJTLU's Economics programme provide rigorous training in quantitative asset "
             \o "management, risk modeling, and monetary policy analysis. These courses build essential competencies in "
             \o "financial engineering and portfolio optimization directly applicable to systematic wealth management strategies.",
     stat |-> "The econometrics sequence (ECO205 -> ECO214 -> ECO302) provides progressive mastery of statistical methods "
              \o "for economic analysis. These courses develop your ability to validate financial models using real market "
              \o "data - a critical skill for evidence-based decision making in quantitative finance roles.",
     eco |-> "Core economics courses establish fundamental principles of resource allocation, market dynamics, and "
             \o "policy evaluation. This theoretical foundation is essential for advanced specialization in finance or "
             \o "policy analysis, providing the analytical framework required for strategic decision-making.",
     sustain |-> "Sustainability courses integrate environmental, social, and governance (ESG) factors into economic analysis. "
                 \o "These courses prepare students for the rapidly growing sustainable finance sector, where traditional financial "
                 \o "acumen is combined with impact assessment capabilities."]

\* CourseService.subject_keywords
subject_keywords ==
    [eco |-> <<"eco", "economics", "micro", "macro", "economic", "econ">>,
     stat |-> <<"stat", "econometrics", "data", "statistics", "quantitative", "metrics">>,
     fin |-> <<"fin", "finance", "monetary", "financial", "banking", "investment">>,
     sustain |-> <<"sustain", "esg", "climate", "environmental", "development">>,
     math |-> <<"math", "maths", "calculus", "mathematical", "linear", "algebra">>]

CREDIT_LIMITS == [year_1 |-> 15, year_2 |-> 20, year_3 |-> 20, year_4 |-> 15]

SPECIALIZATION_PATHS ==
    [quantitative_finance |->
        [core_sequence |-> <<"ECO205", "ECO214", "ECO302", "FIN301", "ECO305">>,
         recommended_electives |-> <<"ECO309", "ECO227", "MTH212">>],
     policy_analysis |->
        [core_sequence |-> <<"ECO213", "ECO216", "ECO225", "ECO305", "ECO321">>,
         recommended_electives |-> <<"ECO207", "ECO212", "POL201">>],
     sustainable_finance |->
        [core_sequence |-> <<"ECO307", "ECO311", "ECO305", "FIN301", "ECO225">>,
         recommended_electives |-> <<"ECO306", "ECO228", "ENV301">>]]

quantitative_courses == <<"ECO205", "ECO214", "ECO302", "MTH212">>
policy_courses == <<"ECO213", "ECO216", "ECO225", "POL201">>

(***************************************************************************)
(* The catalog (mock/xjtlu_economics_courses.json, read once by            *)
(* CourseService._load_mock_courses).  A catalog is a subsequence of       *)
(* CoursePool, so codes are unique and load order is pool order.  A course *)
(* is a dict: FIN301 has no "semester" and no "difficulty_level" key,      *)
(* its prerequisite FIN101 is not a catalog course, and eco309 is stored   *)
(* with a lower-case code and no "credits" key.                            *)
(***************************************************************************)
CoursePool == <<
    [code |-> "ECO205", name |-> "Introductory Econometrics", credits |-> 5,
     tags |-> <<"stat", "econometrics">>, prerequisites |-> <<>>,
     description |-> "regression with data", semester |-> 1, difficulty_level |-> 3],
    [code |-> "ECO214", name |-> "Econometrics II", credits |-> 5,
     tags |-> <<"econometrics">>, prerequisites |-> <<"ECO205">>,
     description |-> "time series", semester |-> 2, difficulty_level |-> 4],
    [code |-> "ECO302", name |-> "Advanced Econometrics", credits |-> 10,
     tags |-> <<"stat">>, prerequisites |-> <<"ECO214">>,
     description |-> "panel data", semester |-> 0, difficulty_level |-> 5],
    [code |-> "FIN301", name |-> "Business Finance", credits |-> 5,
     tags |-> <<"fin">>, prerequisites |-> <<"FIN101">>,
     description |-> "corporate finance"],
    [code |-> "ECO305", name |-> "Monetary Economics", credits |-> 10,
     tags |-> <<"monetary", "eco">>, prerequisites |-> <<>>,
     description |-> "central banking", semester |-> 1, difficulty_level |-> 4],
    [code |-> "MTH212", name |-> "Linear Algebra", credits |-> 10,
     tags |-> <<"math">>, prerequisites |-> <<>>,
     description |-> "matrices", semester |-> 0, difficulty_level |-> 5],
    [code |-> "ECO213", name |-> "Macroeconomics I", credits |-> 5,
     tags |-> <<"macro">>, prerequisites |-> <<>>,
     description |-> "core macro", semester |-> 1, difficulty_level |-> 2],
    [code |-> "ECO225", name |-> "Development Economics", credits |-> 5,
     tags |-> <<"eco", "development">>, prerequisites |-> <<"ECO213">>,
     description |-> "growth and finance", semester |-> 0, difficulty_level |-> 3],
    [code |-> "eco309", name |-> "Behavioural Economics",
     tags |-> <<"behaviour">>, prerequisites |-> <<>>,
     description |-> "choice", semester |-> 0, difficulty_level |-> 1]
>>

(***************************************************************************)
(* The profiles a caller may pass (api/schemas.py UserProfile): target     *)
(* programs that hit each text rule or none, one that is not a str, and    *)
(* academic years with and without a usable first segment.                 *)
(***************************************************************************)
TargetPrograms ==
    {"", "HKU MFWM", "hku mfwm", "Family Wealth Office", "Family Wealth Policy",
     "Central Bank", "ESG policy", "Sustainable Investing", NoneStr}

\* the target programs of the profiles given to the planner and the dispatcher
ProfilePrograms == {"", "HKU MFWM", "Sustainable Investing", NoneStr}

AcademicYears == {"2025-2026", "2021-2022", "-2026"}

Semesters == {"Fall", "Spring"}

CompletedUniverse == {"ECO205", "ECO214", "ECO213", "FIN101"}

\* queries given to the classifier: up to MaxWords words, joined by spaces.
\* "recommend" holds "eco", "timetable" holds "time", "Explain" needs lower(),
\* and the word " " pads a query with spaces.
Vocabulary ==
    {"Explain", "plan", "career", "prerequisite", "workload", "fin", "Statistics",
     "recommend", "timetable", "hello", " "}

RECURSIVE QueriesOf(_)
QueriesOf(n) ==
    IF n = 0 THEN {""}
    ELSE LET shorter == QueriesOf(n - 1)
         IN  shorter \cup {IF q = "" THEN w ELSE q \o " " \o w : q \in shorter, w \in Vocabulary}

Queries == QueriesOf(MaxWords)

\* queries given to dispatch: one per route, with and without a subject
DispatchQueries ==
    {"Explain fin", " Explain ", "Explain plan", "plan my semester", "career stat",
     "prerequisite eco fin", "prerequisite", "workload", "hello", NoneStr}

\* the texts that reach str.lower() and str.upper()
LowerInputs ==
    (TargetPrograms \ {NoneStr}) \cup Semesters \cup Queries \cup (DispatchQueries \ {NoneStr})
    \cup {CoursePool[i].name : i \in 1..Len(CoursePool)}
    \cup {CoursePool[i].description : i \in 1..Len(CoursePool)}

UpperInputs ==
    UNION {{SPECIALIZATION_PATHS[p][k][i] : i \in DOMAIN SPECIALIZATION_PATHS[p][k]}
           : p \in DOMAIN SPECIALIZATION_PATHS,
             k \in {"core_sequence", "recommended_electives"}}
    \cup {CoursePool[i].code : i \in 1..Len(CoursePool)}

(***************************************************************************)
(* Python str operations.                                                  *)
(***************************************************************************)
LowerChar(c) ==
    CASE c = "A" -> "a" [] c = "B" -> "b" [] c = "C" -> "c" [] c = "D" -> "d"
      [] c = "E" -> "e" [] c = "F" -> "f" [] c = "G" -> "g" [] c = "H" -> "h"
      [] c = "I" -> "i" [] c = "J" -> "j" [] c = "K" -> "k" [] c = "L" -> "l"
      [] c = "M" -> "m" [] c = "N" -> "n" [] c = "O" -> "o" [] c = "P" -> "p"
      [] c = "Q" -> "q" [] c = "R" -> "r" [] c = "S" -> "s" [] c = "T" -> "t"
      [] c = "U" -> "u" [] c = "V" -> "v" [] c = "W" -> "w" [] c = "X" -> "x"
      [] c = "Y" -> "y" [] c = "Z" -> "z" [] OTHER -> c

UpperChar(c) ==
    CASE c = "a" -> "A" [] c = "b" -> "B" [] c = "c" -> "C" [] c = "d" -> "D"
      [] c = "e" -> "E" [] c = "f" -> "F" [] c = "g" -> "G" [] c = "h" -> "H"
      [] c = "i" -> "I" [] c = "j" -> "J" [] c = "k" -> "K" [] c = "l" -> "L"
      [] c = "m" -> "M" [] c = "n" -> "N" [] c = "o" -> "O" [] c = "p" -> "P"
      [] c = "q" -> "Q" [] c = "r" -> "R" [] c = "s" -> "S" [] c = "t" -> "T"
      [] c = "u" -> "U" [] c = "v" -> "V" [] c = "w" -> "W" [] c = "x" -> "X"
      [] c = "y" -> "Y" [] c = "z" -> "Z" [] OTHER -> c

RECURSIVE LowerChars(_)
LowerChars(s) == IF s = "" THEN "" ELSE LowerChar(Head(s)) \o LowerChars(Tail(s))

RECURSIVE UpperChars(_)
UpperChars(s) == IF s = "" THEN "" ELSE UpperChar(Head(s)) \o UpperChars(Tail(s))

\* the texts the model lower-cases and upper-cases, converted once
LowerTable == [s \in LowerInputs |-> LowerChars(s)]

UpperTable == [s \in UpperInputs |-> UpperChars(s)]

\* s.lower()
Lower(s) == IF s \in LowerInputs THEN LowerTable[s] ELSE LowerChars(s)

\* s.upper()
Upper(s) == IF s \in UpperInputs THEN UpperTable[s] ELSE UpperChars(s)

\* sub in s
Contains(sub, s) ==
    \E i \in 1..(Len(s) - Len(sub) + 1) : SubSeq(s, i, i + Len(sub) - 1) = sub

\* any(k in s for k in kws)
ContainsAny(kws, s) == \E j \in 1..Len(kws) : Contains(kws[j], s)

RECURSIVE LStrip(_)
LStrip(s) == IF s # "" /\ Head(s) = " " THEN LStrip(Tail(s)) ELSE s

RECURSIVE RStrip(_)
RStrip(s) ==
    IF s # "" /\ SubSeq(s, Len(s), Len(s)) = " "
    THEN RStrip(SubSeq(s, 1, Len(s) - 1))
    ELSE s

\* s.strip()
Strip(s) == RStrip(LStrip(s))

\* s.split("-")[0]
RECURSIVE FirstSegment(_)
FirstSegment(s) ==
    IF s = "" \/ Head(s) = "-" THEN "" ELSE Head(s) \o FirstSegment(Tail(s))

\* sep.join(seq)
RECURSIVE JoinWith(_, _)
JoinWith(sep, seq) ==
    IF seq = <<>> THEN ""
    ELSE IF Len(seq) = 1 THEN seq[1]
    ELSE seq[1] \o sep \o JoinWith(sep, Tail(seq))

\* ", ".join(seq)
Join(seq) == JoinWith(", ", seq)

\* d.get(k, default)
Get(d, k, default) == IF k \in DOMAIN d THEN d[k] ELSE default

\* the elements of a sequence
Range(seq) == {seq[i] : i \in 1..Len(seq)}

\* [f(x) for x in seq if Test(x)], as the subsequence at the indices in S
RECURSIVE PickSeq(_, _, _)
PickSeq(seq, S, i) ==
    IF i > Len(seq) THEN <<>>
    ELSE (IF i \in S THEN <<seq[i]>> ELSE <<>>) \o PickSeq(seq, S, i + 1)


Catalogs ==
    {PickSeq(CoursePool, S, 1) :
        S \in {T \in SUBSET (1..Len(CoursePool)) : Cardinality(T) <= MaxCatalog}}

\* keys are pairs (tuples of two numbers, False < True as 0 < 1), compared as
\* Python compares tuples
KeyLess(a, b) == a[1] < b[1] \/ (a[1] = b[1] /\ a[2] < b[2])

\* list.sort(key=..., reverse=True) is stable: index x goes before the first
\* index with a smaller key, after every index with an equal one
InsertDescending(order, x, keys) ==
    LET smaller == {i \in 1..Len(order) : KeyLess(keys[order[i]], keys[x])}
        at == IF smaller = {} THEN Len(order) + 1
              ELSE CHOOSE i \in smaller : \A j \in smaller : i <= j
    IN  SubSeq(order, 1, at - 1) \o <<x>> \o SubSeq(order, at, Len(order))

RECURSIVE SortedOrder(_, _)
SortedOrder(keys, n) ==
    IF n = 0 THEN <<>> ELSE InsertDescending(SortedOrder(keys, n - 1), n, keys)

\* seq sorted in place by keys[i], the key of seq[i], with reverse=True
SortDescending(seq, keys) ==
    LET order == SortedOrder(keys, Len(seq)) IN [i \in 1..Len(seq) |-> seq[order[i]]]

\* seq[:n]
Take(seq, n) == SubSeq(seq, 1, IF Len(seq) < n THEN Len(seq) ELSE n)

(***************************************************************************)
(* CourseService (service/course_servicec.py).                             *)
(***************************************************************************)
\* any(tag in keywords for tag in course.get("tags", []))
TaggedWith(course, keywords) ==
    \E t \in Range(Get(course, "tags", <<>>)) : t \in Range(keywords)

\* the bucket of one subject: the catalog's courses with a tag among its
\* keywords, in catalog order
RECURSIVE Bucket(_, _, _)
Bucket(cs, keywords, i) ==
    IF i > Len(cs) THEN <<>>
    ELSE (IF TaggedWith(cs[i], keywords) THEN <<cs[i]>> ELSE <<>>)
         \o Bucket(cs, keywords, i + 1)

\* self.keyword_index after _build_keyword_index: a key only for a subject
\* with at least one course
_build_keyword_index(cs) ==
    LET keys == {s \in Range(Subjects) : Bucket(cs, subject_keywords[s], 1) # <<>>}
    IN  [s \in keys |-> Bucket(cs, subject_keywords[s], 1)]

RECURSIVE FirstWithCode(_, _, _)
FirstWithCode(cs, code, i) ==
    IF i > Len(cs) THEN None
    ELSE IF Upper(cs[i].code) = code THEN cs[i]
    ELSE FirstWithCode(cs, code, i + 1)

get_course_by_code(cs, code) == FirstWithCode(cs, Upper(code), 1)

get_prerequisites(cs, course_code) ==
    LET course == get_course_by_code(cs, course_code)
    IN  IF course # None /\ "prerequisites" \in DOMAIN course
        THEN course.prerequisites
        ELSE <<>>

\* the test that also asks for the prerequisites of each prerequisite
CheckPrerequisitesOfPrerequisites(cs, course_code, completed_courses) ==
    \A prereq \in Range(get_prerequisites(cs, course_code)) :
        /\ prereq \in completed_courses
        /\ \A earlier \in Range(get_prerequisites(cs, prereq)) : earlier \in completed_courses

check_prerequisites_met(cs, course_code, completed_courses) ==
    \A prereq \in Range(get_prerequisites(cs, course_code)) :
        prereq \in completed_courses

\* the fuzzy match of lines 75-77
FuzzyMatch(course, keyword) ==
    \/ Contains(keyword, Lower(course.name))
    \/ Contains(keyword, Lower(Get(course, "description", "")))
    \/ \E t \in Range(Get(course, "tags", <<>>)) : Contains(keyword, t)

RECURSIVE FuzzyResults(_, _, _)
FuzzyResults(cs, keyword, i) ==
    IF i > Len(cs) THEN <<>>
    ELSE (IF FuzzyMatch(cs[i], keyword) THEN <<cs[i]>> ELSE <<>>)
         \o FuzzyResults(cs, keyword, i + 1)

\* the sort key of lines 81-84
RelevanceKey(course, keyword) ==
    <<IF Contains(keyword, Lower(course.name)) THEN 1 ELSE 0,
      IF Contains(keyword, Lower(Get(course, "description", ""))) THEN 1 ELSE 0>>

search_by_keyword(self, kw) ==
    LET keyword == Lower(kw)
        results == FuzzyResults(self.courses, keyword, 1)
    IN  IF keyword \in DOMAIN self.keyword_index
        THEN self.keyword_index[keyword]
        ELSE Take(SortDescending(results,
                                 [i \in 1..Len(results) |-> RelevanceKey(results[i], keyword)]),
                  10)

(***************************************************************************)
(* PlanningService (service/planning_service.py).                          *)
(***************************************************************************)
\* SPECIALIZATION_PATHS.get(specialization, {}).get(key, [])
PathList(specialization, key) ==
    Get(Get(SPECIALIZATION_PATHS, specialization, <<>>), key, <<>>)

\* sum(1 for c in completed_courses if c in markers)
MarkerCount(completed_courses, markers) ==
    Cardinality({c \in completed_courses : c \in Range(markers)})

\* the literal of line 153 has an upper-case U and is tested against the
\* lower-cased target_program
_determine_specialization(target_program, completed_courses) ==
    LET tp == Lower(target_program)
        quantitative_count == MarkerCount(completed_courses, quantitative_courses)
        policy_count == MarkerCount(completed_courses, policy_courses)
    IN  IF Contains("hkU mfwm", tp) \/ Contains("family wealth", tp)
        THEN "quantitative_finance"
        ELSE IF Contains("policy", tp) \/ Contains("central bank", tp)
        THEN "policy_analysis"
        ELSE IF Contains("sustain", tp) \/ Contains("esg", tp)
        THEN "sustainable_finance"
        ELSE IF quantitative_count > policy_count THEN "quantitative_finance"
        ELSE IF policy_count > 0 THEN "policy_analysis"
        ELSE "quantitative_finance"

\* all_courses: the path's codes resolved in the catalog, missing codes dropped
RECURSIVE ResolveCodes(_, _, _)
ResolveCodes(cs, codes, i) ==
    IF i > Len(codes) THEN <<>>
    ELSE LET course == get_course_by_code(cs, codes[i])
         IN  (IF course # None THEN <<course>> ELSE <<>>)
             \o ResolveCodes(cs, codes, i + 1)

TargetSemester(semester) == IF Lower(semester) = "fall" THEN 1 ELSE 2

\* the test of lines 204-206
Offered(cs, course, semester, completed_courses) ==
    /\ \/ Get(course, "semester", 0) = 0
       \/ Get(course, "semester", 0) = TargetSemester(semester)
    /\ check_prerequisites_met(cs, course.code, completed_courses)

RECURSIVE SemesterCourses(_, _, _, _, _)
SemesterCourses(cs, all_courses, semester, completed_courses, i) ==
    IF i > Len(all_courses) THEN <<>>
    ELSE (IF Offered(cs, all_courses[i], semester, completed_courses)
          THEN <<all_courses[i]>> ELSE <<>>)
         \o SemesterCourses(cs, all_courses, semester, completed_courses, i + 1)

\* the sort key of lines 210-213: (code in core_sequence, -credits)
SortKey(course, core_sequence) ==
    <<IF course.code \in Range(core_sequence) THEN 1 ELSE 0,
      0 - Get(course, "credits", 5)>>

_get_recommended_courses(cs, specialization, semester, completed_courses) ==
    LET core_sequence == PathList(specialization, "core_sequence")
        electives == PathList(specialization, "recommended_electives")
        all_courses == ResolveCodes(cs, core_sequence \o electives, 1)
        semester_courses == SemesterCourses(cs, all_courses, semester, completed_courses, 1)
    IN  SortDescending(semester_courses,
                       [i \in 1..Len(semester_courses) |->
                            SortKey(semester_courses[i], core_sequence)])

\* [c["code"] for c in selected_courses]
Codes(cseq) == {cseq[i].code : i \in 1..Len(cseq)}

\* first pass, lines 231-236, from candidate i on
RECURSIVE FirstPass(_, _, _, _, _)
FirstPass(recommended_courses, completed_courses, i, selected_courses, remaining_credits) ==
    IF i > Len(recommended_courses)
    THEN [selected_courses |-> selected_courses, remaining_credits |-> remaining_credits]
    ELSE LET course == recommended_courses[i]
             course_credits == Get(course, "credits", 5)
         IN  IF /\ course.code \notin completed_courses
                /\ course.code \notin Codes(selected_courses)
                /\ course_credits <= remaining_credits
             THEN FirstPass(recommended_courses, completed_courses, i + 1,
                            Append(selected_courses, course),
                            remaining_credits - course_credits)
             ELSE FirstPass(recommended_courses, completed_courses, i + 1,
                            selected_courses, remaining_credits)

\* the second pass without its test that the course is not yet selected
RECURSIVE SecondPassNoSelectedTest(_, _, _, _, _)
SecondPassNoSelectedTest(recommended_courses, completed_courses, i, selected_courses, remaining_credits) ==
    IF i > Len(recommended_courses)
    THEN [selected_courses |-> selected_courses, remaining_credits |-> remaining_credits]
    ELSE LET course == recommended_courses[i]
             course_credits == Get(course, "credits", 5)
         IN  IF /\ course.code \notin completed_courses
                /\ course_credits <= remaining_credits
             THEN IF remaining_credits - course_credits < 5
                  THEN [selected_courses |-> Append(selected_courses, course),
                        remaining_credits |-> remaining_credits - course_credits]
                  ELSE SecondPassNoSelectedTest(recommended_courses, completed_courses, i + 1,
                                                Append(selected_courses, course),
                                                remaining_credits - course_credits)
             ELSE SecondPassNoSelectedTest(recommended_courses, completed_courses, i + 1,
                                           selected_courses, remaining_credits)

\* the loop of the second pass, lines 240-247, from candidate i on
RECURSIVE SecondPass(_, _, _, _, _)
SecondPass(recommended_courses, completed_courses, i, selected_courses, remaining_credits) ==
    IF i > Len(recommended_courses)
    THEN [selected_courses |-> selected_courses, remaining_credits |-> remaining_credits]
    ELSE LET course == recommended_courses[i]
             course_credits == Get(course, "credits", 5)
         IN  IF /\ course.code \notin completed_courses
                /\ course.code \notin Codes(selected_courses)
                /\ course_credits <= remaining_credits
             THEN IF remaining_credits - course_credits < 5
                  THEN [selected_courses |-> Append(selected_courses, course),
                        remaining_credits |-> remaining_credits - course_credits]
                  ELSE SecondPass(recommended_courses, completed_courses, i + 1,
                                  Append(selected_courses, course),
                                  remaining_credits - course_credits)
             ELSE SecondPass(recommended_courses, completed_courses, i + 1,
                             selected_courses, remaining_credits)

\* both passes, with the budget left
FilterState(recommended_courses, completed_courses, available_credits) ==
    LET first == FirstPass(recommended_courses, completed_courses, 1, <<>>, available_credits)
    IN  IF first.remaining_credits >= 5
        THEN SecondPass(recommended_courses, completed_courses, 1,
                        first.selected_courses, first.remaining_credits)
        ELSE first

\* the first pass started at the second candidate, and no second pass
FilterCoursesSkippingFirstCandidate(recommended_courses, completed_courses, available_credits) ==
    FirstPass(recommended_courses, completed_courses, 2, <<>>, available_credits).selected_courses

_filter_courses(recommended_courses, completed_courses, available_credits) ==
    FilterState(recommended_courses, completed_courses, available_credits).selected_courses

\* sum(course.get(key, default) for course in cseq)
RECURSIVE SumOf(_, _, _)
SumOf(cseq, key, default) ==
    IF cseq = <<>> THEN 0
    ELSE Get(Head(cseq), key, default) + SumOf(Tail(cseq), key, default)

Max(a, b) == IF a >= b THEN a ELSE b

\* academic_year.split("-")[0][-1] raises IndexError on an empty first segment
YearKeyRaises(academic_year) == FirstSegment(academic_year) = ""

YearKey(academic_year) ==
    LET seg == FirstSegment(academic_year) IN SubSeq(seg, Len(seg), Len(seg))

\* CREDIT_LIMITS.get(f"year_{year_key}", 20)
CreditLimit(academic_year) == Get(CREDIT_LIMITS, "year_" \o YearKey(academic_year), 20)

\* the scoring with thresholds that take in the score they name
AssessWorkloadInclusiveThresholds(cseq, user_context) ==
    LET total_credits == SumOf(cseq, "credits", 5)
        n == Max(Len(cseq), 1)
        credit_limit == CreditLimit(user_context.academic_year)
        difficulty == SumOf(cseq, "difficulty_level", 3)
        score == 30 * total_credits * n + 4 * difficulty * credit_limit
    IN  IF score <= 30 * credit_limit * n THEN "light"
        ELSE IF score <= 40 * credit_limit * n THEN "moderate"
        ELSE "heavy"

\* workload_score = credit_ratio * 0.6 + (course_difficulty / 5) * 0.4, compared
\* with 0.6 and 0.8 as exact fractions: every term is multiplied by
\* 50 * credit_limit * max(course_count, 1).  The doubles of lines 271-274
\* give the same two comparisons for every total_credits that is a multiple
\* of 5, as all totals of pool courses are.
_assess_workload(cseq, user_context) ==
    LET total_credits == SumOf(cseq, "credits", 5)
        n == Max(Len(cseq), 1)
        credit_limit == CreditLimit(user_context.academic_year)
        difficulty == SumOf(cseq, "difficulty_level", 3)
        score == 30 * total_credits * n + 4 * difficulty * credit_limit
    IN  IF score < 30 * credit_limit * n THEN "light"
        ELSE IF score < 40 * credit_limit * n THEN "moderate"
        ELSE "heavy"

RECURSIVE GCD(_, _)
GCD(a, b) == IF b = 0 THEN a ELSE GCD(b, a % b)

\* a float as the fraction num / den in lowest terms
Frac(num, den) ==
    LET g == GCD(num, den) IN [num |-> num \div g, den |-> den \div g]

\* min(max(f, 0.0), 1.0)
Clamp(f) ==
    IF f.num < 0 THEN Frac(0, 1) ELSE IF f.num > f.den THEN Frac(1, 1) ELSE f

\* any(tag in wanted for tag in c.get("tags", []))
HasTag(course, wanted) == \E t \in Range(Get(course, "tags", <<>>)) : t \in wanted

\* the score without the blend of lines 305-308
CareerAlignmentCoverageOnly(cseq, specialization, target_program) ==
    IF cseq = <<>> THEN Frac(0, 1)
    ELSE LET core_courses == PathList(specialization, "core_sequence")
             m == Max(Len(core_courses), 1)
             k == Cardinality({i \in 1..Len(cseq) : cseq[i].code \in Range(core_courses)})
         IN  Clamp(Frac(k, m))

\* the test of line 305 is made on target_program as given, not lower-cased
_calculate_career_alignment(cseq, specialization, target_program) ==
    IF cseq = <<>> THEN Frac(0, 1)
    ELSE LET core_courses == PathList(specialization, "core_sequence")
             m == Max(Len(core_courses), 1)
             n == Max(Len(cseq), 1)
             k == Cardinality({i \in 1..Len(cseq) : cseq[i].code \in Range(core_courses)})
             quant_count ==
                Cardinality({i \in 1..Len(cseq) : HasTag(cseq[i], {"fin", "stat", "math"})})
         IN  IF Contains("HKU MFWM", target_program)
             THEN Clamp(Frac(3 * k * n + 2 * quant_count * m, 5 * m * n))
             ELSE Clamp(Frac(k, m))

\* [c for c in core_sequence if c not in completed_courses and c not in selected_codes]
RECURSIVE MissingCores(_, _, _)
MissingCores(core_sequence, completed_courses, selected_codes) ==
    IF core_sequence = <<>> THEN <<>>
    ELSE (IF Head(core_sequence) \notin completed_courses
             /\ Head(core_sequence) \notin selected_codes
          THEN <<Head(core_sequence)>> ELSE <<>>)
         \o MissingCores(Tail(core_sequence), completed_courses, selected_codes)

\* the gaps with the suffix already given for two missing codes
IdentifyGapsSuffixFromTwo(selected_courses, specialization, completed_courses) ==
    LET core_sequence == PathList(specialization, "core_sequence")
        missing_cores == MissingCores(core_sequence, completed_courses, Codes(selected_courses))
        has_quantitative == \E c \in Range(selected_courses) : HasTag(c, {"stat", "math"})
        has_finance == \E c \in Range(selected_courses) : HasTag(c, {"fin"})
    IN  (IF missing_cores # <<>>
         THEN <<"Missing core courses: "
                \o Join(SubSeq(missing_cores, 1, IF Len(missing_cores) < 2 THEN Len(missing_cores) ELSE 2))
                \o (IF Len(missing_cores) >= 2 THEN " and others" ELSE "")>>
         ELSE <<>>)
        \o (IF specialization = "quantitative_finance" /\ ~has_quantitative
            THEN <<"Limited quantitative training - consider adding econometrics or mathematics courses">>
            ELSE <<>>)
        \o (IF specialization = "quantitative_finance" /\ ~has_finance
            THEN <<"Limited finance exposure - consider adding monetary economics or business finance courses">>
            ELSE <<>>)

_identify_gaps(selected_courses, specialization, completed_courses) ==
    LET core_sequence == PathList(specialization, "core_sequence")
        missing_cores == MissingCores(core_sequence, completed_courses, Codes(selected_courses))
        has_quantitative == \E c \in Range(selected_courses) : HasTag(c, {"stat", "math"})
        has_finance == \E c \in Range(selected_courses) : HasTag(c, {"fin"})
    IN  (IF missing_cores # <<>>
         THEN <<"Missing core courses: "
                \o Join(SubSeq(missing_cores, 1, IF Len(missing_cores) < 2 THEN Len(missing_cores) ELSE 2))
                \o (IF Len(missing_cores) > 2 THEN " and others" ELSE "")>>
         ELSE <<>>)
        \o (IF specialization = "quantitative_finance" /\ ~has_quantitative
            THEN <<"Limited quantitative training - consider adding econometrics or mathematics courses">>
            ELSE <<>>)
        \o (IF specialization = "quantitative_finance" /\ ~has_finance
            THEN <<"Limited finance exposure - consider adding monetary economics or business finance courses">>
            ELSE <<>>)

\* a default plan cut down to its first course
DefaultPlanFirstCourseOnly(user_context) ==
    [academic_year |-> user_context.academic_year,
     semester |-> user_context.current_semester,
     specialization |-> "general_economics",
     courses |-> <<[code |-> "ECO213", name |-> "Macroeconomics I", credits |-> 5,
                    description |-> "Core macroeconomics principles"]>>,
     total_credits |-> 5,
     workload_level |-> "light",
     career_alignment_score |-> Frac(3, 5),
     gap_analysis |-> <<"Default plan used due to system constraints">>,
     credit_limit |-> user_context.available_credits]

_get_default_plan(user_context) ==
    [academic_year |-> user_context.academic_year,
     semester |-> user_context.current_semester,
     specialization |-> "general_economics",
     courses |-> <<[code |-> "ECO213", name |-> "Macroeconomics I", credits |-> 5,
                    description |-> "Core macroeconomics principles"],
                   [code |-> "ECO217", name |-> "Microeconomics I", credits |-> 5,
                    description |-> "Core microeconomics principles"]>>,
     total_credits |-> 10,
     workload_level |-> "light",
     career_alignment_score |-> Frac(3, 5),
     gap_analysis |-> <<"Default plan used due to system constraints">>,
     credit_limit |-> user_context.available_credits,
     note |-> "This is a default plan. For personalized recommendations, please ensure your academic profile is complete."]

\* the default calendar of _load_academic_calendar
academic_calendar ==
    [y \in {"2025-2026"} |->
        [Fall |-> [start |-> "2025-09-01", end |-> "2025-12-15"],
         Spring |-> [start |-> "2026-02-01", end |-> "2026-05-15"]]]

\* what makes the try block of generate_semester_plan raise: target_program.lower()
\* on a value that is not a str (line 151), and the year key of line 267
PlanningRaises(user_context) ==
    \/ ~IsStr(user_context.target_program)
    \/ YearKeyRaises(user_context.academic_year)

\* the body of the try block, lines 80-137
PlanSteps(cs, user_context) ==
    LET completed_courses == user_context.completed_courses
        specialization ==
            _determine_specialization(user_context.target_program, completed_courses)
        recommended_courses ==
            _get_recommended_courses(cs, specialization, user_context.current_semester,
                                     completed_courses)
        filtered_courses ==
            _filter_courses(recommended_courses, completed_courses,
                            user_context.available_credits)
    IN  [academic_year |-> user_context.academic_year,
         semester |-> user_context.current_semester,
         specialization |-> specialization,
         courses |-> filtered_courses,
         total_credits |-> SumOf(filtered_courses, "credits", 5),
         workload_level |-> _assess_workload(filtered_courses, user_context),
         career_alignment_score |->
            _calculate_career_alignment(filtered_courses, specialization,
                                        user_context.target_program),
         gap_analysis |-> _identify_gaps(filtered_courses, specialization, completed_courses),
         credit_limit |-> user_context.available_credits,
         calendar_dates |->
            Get(Get(academic_calendar, user_context.academic_year, <<>>),
                user_context.current_semester, <<>>)]

generate_semester_plan(cs, user_context) ==
    IF PlanningRaises(user_context)
    THEN _get_default_plan(user_context)
    ELSE PlanSteps(cs, user_context)

CompletedSets == {C \in SUBSET CompletedUniverse : Cardinality(C) <= MaxCompleted}

Budgets == {5 * u : u \in 0..MaxBudgetUnits}

Profiles ==
    [major : {"Economics"}, academic_year : AcademicYears, current_semester : Semesters,
     target_program : ProfilePrograms, completed_courses : CompletedSets,
     available_credits : Budgets]

(***************************************************************************)
(* Construction: every service loads the same catalog and builds its       *)
(* index; the settings are those of core/config.py.                        *)
(***************************************************************************)
Constructed(mock, env) ==
    /\ courses \in Catalogs
    /\ keyword_index = _build_keyword_index(courses)
    /\ use_mock = mock
    /\ app_env = env
    /\ pc = "idle"
    /\ call = None
    /\ result = None

\* the caller takes the result; the services keep nothing of the call
Return ==
    /\ pc # "idle"
    /\ pc' = "idle"
    /\ call' = None
    /\ result' = None
    /\ UNCHANGED <<courses, keyword_index, use_mock, app_env>>

(***************************************************************************)
(* The course service called on its own.  Its catalog is one of Catalogs   *)
(* or a larger catalog of economics electives, every one tagged "eco".     *)
(***************************************************************************)
LargeCatalog(n) ==
    [i \in 1..n |->
        [code |-> "ECO" \o ToString(300 + i),
         name |-> "Economics Elective " \o ToString(i),
         credits |-> 5,
         tags |-> <<"eco", IF i % 2 = 0 THEN "macro" ELSE "micro">>,
         prerequisites |-> <<>>,
         description |-> "elective module", semester |-> 0, difficulty_level |-> 3]]

CourseCatalogs == Catalogs \cup {LargeCatalog(n) : n \in 1..MaxLargeCatalog}

\* keywords: keys of the index in both cases, and texts for the fuzzy match
SearchKeywords ==
    {"eco", "ECO", "fin", "stat", "economics", "elective", "micro", "econometrics", "zzz"}

\* codes asked about: catalog codes in both cases, and a code of no course
PrerequisiteCodes == {"ECO205", "ECO214", "eco214", "ECO302", "FIN301", "ECO225", "ECO999"}

CallSearchByKeyword ==
    /\ pc = "idle"
    /\ \E kw \in SearchKeywords :
        /\ call' = [keyword |-> kw]
        /\ result' = search_by_keyword([courses |-> courses, keyword_index |-> keyword_index], kw)
    /\ pc' = "search_by_keyword"
    /\ UNCHANGED <<courses, keyword_index, use_mock, app_env>>

CallCheckPrerequisitesMet ==
    /\ pc = "idle"
    /\ \E code \in PrerequisiteCodes, done \in CompletedSets :
        /\ call' = [course_code |-> code, completed_courses |-> done]
        /\ result' = check_prerequisites_met(courses, code, done)
    /\ pc' = "check_prerequisites_met"
    /\ UNCHANGED <<courses, keyword_index, use_mock, app_env>>

InitCourse ==
    /\ courses \in CourseCatalogs
    /\ keyword_index = _build_keyword_index(courses)
    /\ use_mock = TRUE
    /\ app_env = "development"
    /\ pc = "idle"
    /\ call = None
    /\ result = None

NextCourse == CallSearchByKeyword \/ CallCheckPrerequisitesMet \/ Return

SpecCourse == InitCourse /\ [][NextCourse]_vars

(***************************************************************************)
(* The planning service called on its own.                                 *)
(***************************************************************************)
CallGenerateSemesterPlan ==
    /\ pc = "idle"
    /\ \E uc \in Profiles :
        /\ call' = [user_context |-> uc]
        /\ result' = generate_semester_plan(courses, uc)
    /\ pc' = "generate_semester_plan"
    /\ UNCHANGED <<courses, keyword_index, use_mock, app_env>>

CallDetermineSpecialization ==
    /\ pc = "idle"
    /\ \E tp \in TargetPrograms \ {NoneStr}, done \in CompletedSets :
        /\ call' = [target_program |-> tp, completed_courses |-> done]
        /\ result' = _determine_specialization(tp, done)
    /\ pc' = "_determine_specialization"
    /\ UNCHANGED <<courses, keyword_index, use_mock, app_env>>

CallGetRecommendedCourses ==
    /\ pc = "idle"
    /\ \E sp \in DOMAIN SPECIALIZATION_PATHS, sem \in Semesters, done \in CompletedSets :
        /\ call' = [specialization |-> sp, semester |-> sem, completed_courses |-> done]
        /\ result' = _get_recommended_courses(courses, sp, sem, done)
    /\ pc' = "_get_recommended_courses"
    /\ UNCHANGED <<courses, keyword_index, use_mock, app_env>>

InitPlan == Constructed(TRUE, "development")

NextPlan ==
    \/ CallGenerateSemesterPlan
    \/ CallDetermineSpecialization
    \/ CallGetRecommendedCourses
    \/ Return

SpecPlan == InitPlan /\ [][NextPlan]_vars

(***************************************************************************)
(* The selection and scoring steps of the planning service called on their *)
(* own.  They read neither the catalog nor the index; the service holds    *)
(* the whole pool.                                                         *)
(***************************************************************************)
\* candidate lists: up to MaxCatalog different courses in any order
CandidateLists ==
    UNION {{[i \in 1..n |-> CoursePool[order[i]]] :
                order \in {f \in [1..n -> 1..Len(CoursePool)] :
                                \A a, b \in 1..n : a # b => f[a] # f[b]}}
           : n \in 0..MaxCatalog}

\* academic years: one per year digit with a credit limit, one with another
\* digit, one without a hyphen, the empty string and one that starts with
\* the hyphen
WorkloadYears ==
    {"2021-2022", "2022-2023", "2023-2024", "2024-2025", "2025-2026", "2026", "", "-2026"}

\* a specialization of no configured path is the one of the default plan
ScoredSpecializations == DOMAIN SPECIALIZATION_PATHS \cup {"general_economics"}

CallFilterCourses ==
    /\ pc = "idle"
    /\ \E rec \in CandidateLists, done \in CompletedSets, budget \in Budgets :
        /\ call' = [recommended_courses |-> rec, completed_courses |-> done,
                    available_credits |-> budget]
        /\ result' = _filter_courses(rec, done, budget)
    /\ pc' = "_filter_courses"
    /\ UNCHANGED <<courses, keyword_index, use_mock, app_env>>

\* the index of line 267 raises IndexError on an empty first segment
CallAssessWorkload ==
    /\ pc = "idle"
    /\ \E cseq \in Catalogs, ay \in WorkloadYears :
        /\ call' = [courses |-> cseq, user_context |-> [academic_year |-> ay]]
        /\ result' = IF YearKeyRaises(ay) THEN "IndexError"
                     ELSE _assess_workload(cseq, [academic_year |-> ay])
    /\ pc' = "_assess_workload"
    /\ UNCHANGED <<courses, keyword_index, use_mock, app_env>>

CallCalculateCareerAlignment ==
    /\ pc = "idle"
    /\ \E cseq \in Catalogs, sp \in ScoredSpecializations, tp \in TargetPrograms \ {NoneStr} :
        /\ call' = [courses |-> cseq, specialization |-> sp, target_program |-> tp]
        /\ result' = _calculate_career_alignment(cseq, sp, tp)
    /\ pc' = "_calculate_career_alignment"
    /\ UNCHANGED <<courses, keyword_index, use_mock, app_env>>

CallIdentifyGaps ==
    /\ pc = "idle"
    /\ \E cseq \in Catalogs, sp \in ScoredSpecializations, done \in CompletedSets :
        /\ call' = [selected_courses |-> cseq, specialization |-> sp,
                    completed_courses |-> done]
        /\ result' = _identify_gaps(cseq, sp, done)
    /\ pc' = "_identify_gaps"
    /\ UNCHANGED <<courses, keyword_index, use_mock, app_env>>

InitScore ==
    /\ courses = CoursePool
    /\ keyword_index = _build_keyword_index(courses)
    /\ use_mock = TRUE
    /\ app_env = "development"
    /\ pc = "idle"
    /\ call = None
    /\ result = None

NextScore ==
    \/ CallFilterCourses
    \/ CallAssessWorkload
    \/ CallCalculateCareerAlignment
    \/ CallIdentifyGaps
    \/ Return

SpecScore == InitScore /\ [][NextScore]_vars

(***************************************************************************)
(* AcademicDispatcher (MCP/dispatcher.py): the classifier.                 *)
(***************************************************************************)
\* line 105: query.lower().strip()
Normalize(query) == Strip(Lower(query))

\* the normalized queries the classifier is given
NormalizedQueries == {Normalize(q) : q \in Queries \cup (DispatchQueries \ {NoneStr})}

\* the scan returning the last intent that matches instead of the first
RECURSIVE LastIntent(_, _)
LastIntent(query, i) ==
    IF i > Len(INTENT_KEYWORDS) THEN "general_query"
    ELSE LET later == LastIntent(query, i + 1)
         IN  IF later # "general_query" THEN later
             ELSE IF ContainsAny(INTENT_KEYWORDS[i].keywords, query)
             THEN INTENT_KEYWORDS[i].intent
             ELSE "general_query"

RECURSIVE FirstIntent(_, _)
FirstIntent(query, i) ==
    IF i > Len(INTENT_KEYWORDS) THEN "general_query"
    ELSE IF ContainsAny(INTENT_KEYWORDS[i].keywords, query) THEN INTENT_KEYWORDS[i].intent
    ELSE FirstIntent(query, i + 1)

\* the classification of each query given, computed once
IntentTable == [query \in NormalizedQueries |-> FirstIntent(query, 1)]

_detect_intent(query) ==
    IF query \in NormalizedQueries THEN IntentTable[query] ELSE FirstIntent(query, 1)

\* the scan inserting each found subject at the front of found_keywords
RECURSIVE FoundKeywordsReversed(_, _)
FoundKeywordsReversed(query, i) ==
    IF i > Len(Subjects) THEN <<>>
    ELSE FoundKeywordsReversed(query, i + 1)
         \o (IF ContainsAny(SUBJECT_KEYWORDS[Subjects[i]], query) THEN <<Subjects[i]>> ELSE <<>>)

RECURSIVE FoundKeywords(_, _)
FoundKeywords(query, i) ==
    IF i > Len(Subjects) THEN <<>>
    ELSE (IF ContainsAny(SUBJECT_KEYWORDS[Subjects[i]], query) THEN <<Subjects[i]>> ELSE <<>>)
         \o FoundKeywords(query, i + 1)

\* the subjects of each query given, computed once
SubjectTable == [query \in NormalizedQueries |-> FoundKeywords(query, 1)]

_extract_subject_keywords(query) ==
    IF query \in NormalizedQueries THEN SubjectTable[query] ELSE FoundKeywords(query, 1)


(***************************************************************************)
(* The classifier called on its own, on a normalized query.                *)
(***************************************************************************)
CallDetectIntent ==
    /\ pc = "idle"
    /\ \E q \in Queries :
        /\ call' = [query |-> Normalize(q)]
        /\ result' = _detect_intent(Normalize(q))
    /\ pc' = "_detect_intent"
    /\ UNCHANGED <<courses, keyword_index, use_mock, app_env>>

CallExtractSubjectKeywords ==
    /\ pc = "idle"
    /\ \E q \in Queries :
        /\ call' = [query |-> Normalize(q)]
        /\ result' = _extract_subject_keywords(Normalize(q))
    /\ pc' = "_extract_subject_keywords"
    /\ UNCHANGED <<courses, keyword_index, use_mock, app_env>>

InitClassify == Constructed(TRUE, "development") /\ Len(courses) <= 1

NextClassify == CallDetectIntent \/ CallExtractSubjectKeywords \/ Return

SpecClassify == InitClassify /\ [][NextClassify]_vars

(***************************************************************************)
(* AIService (service/ai_service.py).  self.use_mock is USE_MOCK_AI, turned *)
(* on by __init__ when no API key is configured, so a service with          *)
(* use_mock off has a key.  The DeepSeek API is outside the program: what   *)
(* one call to it does is an input of the request.                          *)
(***************************************************************************)
\* _call_deepseek_api raises: requests.post times out, or the reply has no choices
ApiFailures == {"timeout", "invalid_format"}

\* _call_deepseek_api returns the stripped content of the first choice
ApiSuccesses == {"prose", "empty", "json_object", "json_partial", "json_scalar"}

ApiContent(api) ==
    CASE api = "prose" -> "These courses build the quantitative skills your goal requires."
      [] api = "empty" -> ""
      [] api = "json_object" ->
            "{\"gap\": \"client work\", \"pathway\": \"ECO205 then ECO214\", \"alignment_score\": 0.85, \"key_modules\": [\"ECO302\"], \"industry_outlook\": \"growing\"}"
      [] api = "json_partial" -> "{\"gap\": \"client work\"}"
      [] api = "json_scalar" -> "0.85"

\* json.loads raises JSONDecodeError on a text that is not JSON
JsonDecodeError(text) == text \notin {ApiContent("json_object"), ApiContent("json_partial"), ApiContent("json_scalar")}

\* json.loads(text) for the JSON texts above
json_loads(text) ==
    CASE text = ApiContent("json_object") ->
            [gap |-> "client work", pathway |-> "ECO205 then ECO214",
             alignment_score |-> Frac(85, 100), key_modules |-> <<"ECO302">>,
             industry_outlook |-> "growing"]
      [] text = ApiContent("json_partial") -> [gap |-> "client work"]
      [] text = ApiContent("json_scalar") -> Frac(85, 100)

\* str(v) inside an f-string
Str(v) == IF IsStr(v) THEN v ELSE "None"

\* _build_course_prompt raises KeyError on a course without "credits" (line 92)
BuildCoursePromptRaises(cseq) == \E i \in 1..Len(cseq) : "credits" \notin DOMAIN cseq[i]

\* one subject's paragraph, lines 234-254 ("->" stands for the arrow of line 242)
MockSubjectText(subject, target) ==
    IF subject = "fin" /\ Contains("HKU MFWM", target)
    THEN "Finance courses in XJTLU's Economics programme provide rigorous training in quantitative asset management and risk modeling. "
         \o "For HKU MFWM preparation, these courses build essential competencies in financial engineering, portfolio optimization, and behavioral finance principles. "
         \o "The curriculum emphasizes both theoretical foundations and practical implementation through case studies of Asian wealth management practices."
    ELSE IF subject = "stat" /\ Contains("HKU MFWM", target)
    THEN "The econometrics sequence (ECO205 -> ECO214 -> ECO302) develops your ability to analyze financial data and validate investment models. "
         \o "For family wealth management careers, these statistical skills are critical for evidence-based decision making and risk assessment. "
         \o "XJTLU's approach integrates Python programming throughout, ensuring you can implement quantitative strategies in professional environments."
    ELSE IF subject = "sustain" /\ Contains("HKU MFWM", target)
    THEN "Sustainability courses (ECO307, ECO311) address the growing importance of ESG factors in wealth preservation and legacy planning. "
         \o "HKU MFWM graduates increasingly work with clients who prioritize impact alongside returns. These courses provide frameworks for integrating environmental, social, and governance considerations into portfolio construction."
    ELSE "Courses in " \o subject \o " provide valuable analytical training that develops critical thinking and quantitative reasoning skills essential for economics graduates."

\* one course's reference, lines 259-260
CourseReference(course) ==
    LET relevance == IF \E t \in Range(Get(course, "tags", <<>>)) : t \in {"fin", "stat"}
                     THEN "directly relevant" ELSE "supportive"
    IN  course.name \o " (" \o course.code \o ") is " \o relevance \o " for your goals"

\* "HKU MFWM" in target raises TypeError when target is None; the test is
\* reached for the subjects fin, stat and sustain only (lines 234-246)
MockCourseExplanationRaises(subjects, user_profile) ==
    /\ ~IsStr(Get(user_profile, "target_program", "graduate studies"))
    /\ \E i \in 1..Len(subjects) : subjects[i] \in {"fin", "stat", "sustain"}

_mock_course_explanation(subjects, cseq, user_profile, original_query) ==
    LET target == Get(user_profile, "target_program", "graduate studies")
        subject_explanations == [i \in 1..Len(subjects) |-> MockSubjectText(subjects[i], target)]
        referred == Take(cseq, 3)
        course_references == [i \in 1..Len(referred) |-> CourseReference(referred[i])]
        course_sentence ==
            IF course_references # <<>>
            THEN JoinWith(". ", course_references) \o "."
            ELSE "These subject areas align with XJTLU's Economics curriculum design."
    IN  JoinWith(" ", subject_explanations) \o " " \o course_sentence

\* lines 42-50: the mock answers when use_mock is on and when anything in
\* the try block raises
CourseExplanationUsesMock(self, cseq, api) ==
    self.use_mock \/ BuildCoursePromptRaises(cseq) \/ api \in ApiFailures

GenerateCourseExplanationRaises(self, subjects, cseq, user_profile, api) ==
    CourseExplanationUsesMock(self, cseq, api) /\ MockCourseExplanationRaises(subjects, user_profile)

generate_course_explanation(self, subjects, cseq, user_profile, original_query, api) ==
    IF CourseExplanationUsesMock(self, cseq, api)
    THEN _mock_course_explanation(subjects, cseq, user_profile, original_query)
    ELSE ApiContent(api)

\* line 276: "HKU MFWM" in target raises TypeError when target is None
MockPlanningAdviceRaises(user_profile) ==
    ~IsStr(Get(user_profile, "target_program", "graduate studies"))

_mock_planning_advice(plan, user_profile, original_query) ==
    LET target == Get(user_profile, "target_program", "graduate studies")
        total_credits == ToString(Get(plan, "total_credits", 0))
        course_count == ToString(Len(Get(plan, "courses", <<>>)))
    IN  IF Contains("HKU MFWM", target)
        THEN "This semester plan provides strong preparation for HKU's Family Wealth Management program. "
             \o "The combination of quantitative courses (econometrics, mathematical finance) and applied finance modules "
             \o "builds the analytical foundation required for systematic wealth management. With "
             \o total_credits \o " credits across " \o course_count \o " courses, "
             \o "the workload is well-balanced for sustained academic performance. Consider connecting with XJTLU's Career Hub to explore "
             \o "summer internships at private banks or family offices to complement this academic preparation."
        ELSE "This balanced semester plan effectively combines theoretical foundations with practical applications. "
             \o "The " \o total_credits \o " credit load across " \o course_count
             \o " courses provides comprehensive coverage while maintaining manageable workload. "
             \o "Focus on developing strong relationships with course instructors, as their mentorship and recommendation letters will be valuable for your future applications. "
             \o "Consider joining the XJTLU Economics Society to connect with peers sharing similar career aspirations."

\* lines 55-63; _build_planning_prompt reads the plan with .get and cannot raise
PlanningAdviceUsesMock(self, api) == self.use_mock \/ api \in ApiFailures

GeneratePlanningAdviceRaises(self, user_profile, api) ==
    PlanningAdviceUsesMock(self, api) /\ MockPlanningAdviceRaises(user_profile)

generate_planning_advice(self, plan, user_profile, original_query, api) ==
    IF PlanningAdviceUsesMock(self, api)
    THEN _mock_planning_advice(plan, user_profile, original_query)
    ELSE ApiContent(api)

\* line 295: "HKU MFWM" in career_goal raises TypeError when career_goal is None
MockCareerAlignmentRaises(career_goal) == ~IsStr(career_goal)

_mock_career_alignment(subjects, career_goal, academic_background, original_query) ==
    IF Contains("HKU MFWM", career_goal)
    THEN [gap |-> "Practical experience in client relationship management and intergenerational wealth transfer case studies",
          pathway |-> "ECO205 -> ECO214 -> ECO302 (Econometrics sequence) + FIN301 + ECO305 + ECO311",
          alignment_score |-> Frac(88, 100),
          key_modules |-> <<"ECO302", "FIN301", "ECO305", "ECO311">>,
          industry_outlook |-> "Family wealth management in Asia is experiencing rapid growth with increasing demand for professionals who combine quantitative rigor with interpersonal skills. HKU MFWM graduates are highly sought after by private banks and multi-family offices across the Greater Bay Area."]
    ELSE [gap |-> "Specialized technical skills in data analysis or policy evaluation depending on career direction",
          pathway |-> "Core Economics sequence + Statistics concentration + relevant electives",
          alignment_score |-> Frac(75, 100),
          key_modules |-> <<"ECO213", "ECO216", "ECO205", "ECO214">>,
          industry_outlook |-> "Economics graduates have diverse career pathways in analysis, policy, and finance roles. Developing complementary quantitative skills significantly enhances employability across all sectors."]

\* lines 68-84: the mock answers when use_mock is on, when the call raises
\* and when the content is not JSON
CareerAlignmentUsesMock(self, api) ==
    self.use_mock \/ api \in ApiFailures \/ JsonDecodeError(ApiContent(api))

AnalyzeCareerAlignmentRaises(self, career_goal, api) ==
    CareerAlignmentUsesMock(self, api) /\ MockCareerAlignmentRaises(career_goal)

analyze_career_alignment(self, subjects, career_goal, academic_background, original_query, api) ==
    IF CareerAlignmentUsesMock(self, api)
    THEN _mock_career_alignment(subjects, career_goal, academic_background, original_query)
    ELSE json_loads(ApiContent(api))

\* how many times each function of the AI service calls _call_deepseek_api,
\* given what the call does: once inside the try block, after the prompt is
\* built, and never from the except block or the mock
CourseExplanationApiCalls(self, cseq, api) ==
    IF self.use_mock \/ BuildCoursePromptRaises(cseq) THEN 0 ELSE 1

\* generate_planning_advice calling the API a second time after a failure
PlanningAdviceApiCallsWithRetry(self, api) ==
    IF self.use_mock THEN 0 ELSE IF api \in ApiFailures THEN 2 ELSE 1

PlanningAdviceApiCalls(self, api) == IF self.use_mock THEN 0 ELSE 1

CareerAlignmentApiCalls(self, api) == IF self.use_mock THEN 0 ELSE 1

(***************************************************************************)
(* AcademicDispatcher (MCP/dispatcher.py): the handlers.  self holds the   *)
(* catalog and index of the course service and the settings the AI service *)
(* and dispatch read.  A handler's try block either completes or raises;   *)
(* the ...Raises operators say when, and the handler answers from its      *)
(* except block then.                                                      *)
(***************************************************************************)
\* lines 167-169 and 311-313: the first n courses found for each subject
RECURSIVE RelevantCourses(_, _, _, _)
RelevantCourses(self, subjects, n, i) ==
    IF i > Len(subjects) THEN <<>>
    ELSE Take(search_by_keyword(self, subjects[i]), n) \o RelevantCourses(self, subjects, n, i + 1)

\* lines 172-177: the first course of each code
UniqueCourses(cseq) ==
    PickSeq(cseq, {i \in 1..Len(cseq) : \A j \in 1..(i - 1) : cseq[j].code # cseq[i].code}, 1)

\* lines 193-201
MatchedCourse(course) ==
    [code |-> course.code,
     name |-> course.name,
     credits |-> course.credits,
     description |-> Take(Get(course, "description", ""), 100) \o "...",
     semester |-> Get(course, "semester", "N/A"),
     prerequisites |-> Get(course, "prerequisites", <<>>),
     career_paths |-> Get(course, "career_paths", <<>>)]

\* lines 215-219
DefaultExplanation(subjects) ==
    JoinWith(" ", [i \in 1..Len(subjects) |->
        Get(SUBJECT_EXPLANATIONS, subjects[i],
            "Courses in " \o subjects[i] \o " provide valuable analytical training for economics students.")])

\* the try block of lines 164-210 raises when the AI service does and when a
\* matched course has no "credits" key (line 196)
CourseExplanationRaises(self, subjects, relevant_courses, user_context, api) ==
    \/ GenerateCourseExplanationRaises(self, subjects, relevant_courses, user_context, api)
    \/ \E i \in 1..Len(relevant_courses) : "credits" \notin DOMAIN relevant_courses[i]

_handle_course_explanation(self, subjects, user_context, original_query, api) ==
    LET relevant_courses == Take(UniqueCourses(RelevantCourses(self, subjects, 3, 1)), 5)
    IN  IF CourseExplanationRaises(self, subjects, relevant_courses, user_context, api)
        THEN [type |-> "course_explanation",
              subjects |-> subjects,
              explanation |-> DefaultExplanation(subjects),
              note |-> "This is a simplified explanation due to system limitations. Full AI analysis would provide more personalized insights.",
              fallback_mode |-> TRUE]
        ELSE [type |-> "course_explanation",
              subjects |-> subjects,
              matched_courses |->
                  [i \in 1..Len(relevant_courses) |-> MatchedCourse(relevant_courses[i])],
              explanation |->
                  generate_course_explanation(self, subjects, relevant_courses, user_context,
                                              original_query, api),
              relevance_score |-> Frac(85 + 5 * Len(subjects), 100),
              academic_year |-> Get(user_context, "academic_year", "2025-2026"),
              target_program |-> Get(user_context, "target_program", "graduate studies")]

\* lines 231-263: generate_semester_plan answers with its default plan
\* instead of raising, so only the advice can raise
_handle_semester_planning(self, user_context, original_query, api) ==
    LET plan == generate_semester_plan(self.courses, user_context)
    IN  IF GeneratePlanningAdviceRaises(self, user_context, api)
        THEN [type |-> "error",
              message |-> "Could not generate semester plan due to system constraints.",
              suggestion |-> "Try asking about specific subject areas instead."]
        ELSE [type |-> "semester_plan",
              recommended_courses |-> plan.courses,
              total_credits |-> plan.total_credits,
              workload_assessment |-> plan.workload_level,
              strategic_advice |->
                  generate_planning_advice(self, plan, user_context, original_query, api),
              gap_analysis |-> Get(plan, "gap_analysis", <<>>),
              career_alignment |-> Get(plan, "career_alignment_score", Frac(0, 1)),
              academic_year |-> Get(user_context, "academic_year", "2025-2026"),
              semester |-> Get(user_context, "current_semester", "Fall")]

\* the keys lines 282-286 read from the analysis
AnalysisKeys == {"gap", "pathway", "alignment_score", "key_modules", "industry_outlook"}

\* the try block of lines 267-290 raises when the AI service does and when
\* the analysis lacks a key it reads
CareerAlignmentRaises(self, subjects, career_goal, background, original_query, api) ==
    \/ AnalyzeCareerAlignmentRaises(self, career_goal, api)
    \/ ~(AnalysisKeys \subseteq
            DOMAIN analyze_career_alignment(self, subjects, career_goal, background,
                                            original_query, api))

_handle_career_alignment(self, subjects, user_context, original_query, api) ==
    LET career_goal == Get(user_context, "target_program", "graduate studies")
        background == Get(user_context, "major", "Economics")
        analysis ==
            analyze_career_alignment(self, subjects, career_goal, background, original_query, api)
    IN  IF CareerAlignmentRaises(self, subjects, career_goal, background, original_query, api)
        THEN [type |-> "career_alignment",
              career_goal |-> career_goal,
              message |-> "Based on XJTLU Economics curriculum, courses in " \o Join(subjects)
                          \o " provide strong foundation for " \o Str(career_goal) \o ".",
              note |-> "For personalized career advice, consider booking an appointment with XJTLU Career Hub.",
              fallback_mode |-> TRUE]
        ELSE [type |-> "career_alignment",
              career_goal |-> career_goal,
              relevant_subjects |-> subjects,
              competency_gap |-> analysis.gap,
              recommended_pathway |-> analysis.pathway,
              hku_alignment_score |-> analysis.alignment_score,
              key_modules |-> analysis.key_modules,
              industry_outlook |-> analysis.industry_outlook]

\* line 318
MissingPrerequisites(course, completed_courses) ==
    LET prereqs == Get(course, "prerequisites", <<>>)
    IN  PickSeq(prereqs, {i \in 1..Len(prereqs) : prereqs[i] \notin completed_courses}, 1)

_handle_prerequisite_check(self, subjects, user_context) ==
    LET completed_courses == Get(user_context, "completed_courses", {})
        relevant_courses == RelevantCourses(self, subjects, 2, 1)
        lacking == {i \in 1..Len(relevant_courses) :
                        MissingPrerequisites(relevant_courses[i], completed_courses) # <<>>}
    IN  [type |-> "prerequisite_check",
         subjects |-> subjects,
         all_prereqs_satisfied |-> (lacking = {}),
         missing_prerequisites |->
            PickSeq([i \in 1..Len(relevant_courses) |->
                        [course |-> relevant_courses[i].code,
                         missing_prerequisites |->
                            MissingPrerequisites(relevant_courses[i], completed_courses)]],
                    lacking, 1),
         completed_courses |-> completed_courses]

_handle_workload_assessment(user_context) ==
    LET completed_courses == Get(user_context, "completed_courses", {})
        total_credits == 5 * Cardinality(completed_courses)
    IN  [type |-> "workload_assessment",
         workload_level |->
            IF total_credits < 60 THEN "beginner"
            ELSE IF total_credits < 120 THEN "intermediate"
            ELSE "advanced",
         assessment |->
            IF total_credits < 60
            THEN "You're building your foundation. Current workload is manageable for most students."
            ELSE IF total_credits < 120
            THEN "You have substantial coursework experience. Consider balancing technical and theoretical courses."
            ELSE "You have significant academic experience. Focus on specialization courses that align with career goals.",
         total_completed_credits |-> total_credits,
         recommendation |-> "For optimal learning, maintain 15-20 credits per semester with balanced difficulty levels."]

\* the general answer typed with the intent's name instead of the response type
GeneralQueryTypedByIntent(query, user_context) ==
    [type |-> "general_query",
     message |-> "I specialize in academic planning for XJTLU Economics students. Try asking about specific subject areas like:",
     available_subjects |-> Subjects,
     academic_year |-> Get(user_context, "academic_year", "2025-2026")]

_handle_general_query(query, user_context) ==
    [type |-> "general_response",
     message |-> "I specialize in academic planning for XJTLU Economics students. Try asking about specific subject areas like:",
     suggestions |->
        <<"Explain courses related to 'fin' for HKU MFWM preparation",
          "Plan my semester with 'eco' and 'stat' courses",
          "How do 'sustain' courses align with family wealth management careers?",
          "Check prerequisites for advanced econometrics courses",
          "Assess my current academic workload">>,
     available_subjects |-> Subjects,
     academic_year |-> Get(user_context, "academic_year", "2025-2026")]

(***************************************************************************)
(* AcademicDispatcher.dispatch.                                            *)
(***************************************************************************)
\* the routing of lines 117-128 with every "and subject_keywords" test left out
RouteWithoutSubjectTest(intent, subjects) ==
    CASE intent = "course_explanation" -> "_handle_course_explanation"
      [] intent = "semester_planning" -> "_handle_semester_planning"
      [] intent = "career_alignment" -> "_handle_career_alignment"
      [] intent = "prerequisite_check" -> "_handle_prerequisite_check"
      [] intent = "workload_assessment" -> "_handle_workload_assessment"
      [] OTHER -> "_handle_general_query"

\* lines 117-128: the handler dispatch calls
Route(intent, subjects) ==
    IF intent = "course_explanation" /\ subjects # <<>>
    THEN "_handle_course_explanation"
    ELSE IF intent = "semester_planning" THEN "_handle_semester_planning"
    ELSE IF intent = "career_alignment" THEN "_handle_career_alignment"
    ELSE IF intent = "prerequisite_check" /\ subjects # <<>>
    THEN "_handle_prerequisite_check"
    ELSE IF intent = "workload_assessment" THEN "_handle_workload_assessment"
    ELSE "_handle_general_query"

\* lines 130-137: query.lower() raises AttributeError on a query that is not
\* a str, the only exception the handlers leave to the top-level except
DispatchError(self, query) ==
    [type |-> "error",
     message |-> "I encountered an error processing your request. Please try rephrasing your question.",
     original_query |-> query,
     error_details |->
        IF self.app_env = "development"
        THEN "'NoneType' object has no attribute 'lower'"
        ELSE NoneStr]

dispatch(self, query, user_context, api) ==
    IF ~IsStr(query) THEN DispatchError(self, query)
    ELSE
        LET normalized_query == Normalize(query)
            intent == _detect_intent(normalized_query)
            subjects == _extract_subject_keywords(normalized_query)
            handler == Route(intent, subjects)
        IN  CASE handler = "_handle_course_explanation" ->
                    _handle_course_explanation(self, subjects, user_context,
                                               normalized_query, api)
              [] handler = "_handle_semester_planning" ->
                    _handle_semester_planning(self, user_context, normalized_query, api)
              [] handler = "_handle_career_alignment" ->
                    _handle_career_alignment(self, subjects, user_context,
                                             normalized_query, api)
              [] handler = "_handle_prerequisite_check" ->
                    _handle_prerequisite_check(self, subjects, user_context)
              [] handler = "_handle_workload_assessment" ->
                    _handle_workload_assessment(user_context)
              [] OTHER -> _handle_general_query(normalized_query, user_context)

\* the calls to _call_deepseek_api made during one dispatch: each handler
\* calls one function of the AI service once, in its try block
DispatchApiCalls(self, query, user_context, api) ==
    IF ~IsStr(query) THEN 0
    ELSE
        LET normalized_query == Normalize(query)
            subjects == _extract_subject_keywords(normalized_query)
            handler == Route(_detect_intent(normalized_query), subjects)
        IN  CASE handler = "_handle_course_explanation" ->
                    CourseExplanationApiCalls(
                        self, Take(UniqueCourses(RelevantCourses(self, subjects, 3, 1)), 5), api)
              [] handler = "_handle_semester_planning" -> PlanningAdviceApiCalls(self, api)
              [] handler = "_handle_career_alignment" -> CareerAlignmentApiCalls(self, api)
              [] OTHER -> 0

\* the prompt dispatch sends to the DeepSeek API, "none" when it sends none:
\* the AI service calls the API once, with use_mock off, after building the
\* prompt
ApiPrompt(self, query, user_context) ==
    IF ~IsStr(query) \/ self.use_mock THEN "none"
    ELSE
        LET normalized_query == Normalize(query)
            subjects == _extract_subject_keywords(normalized_query)
            handler == Route(_detect_intent(normalized_query), subjects)
        IN  CASE handler = "_handle_course_explanation" ->
                    IF BuildCoursePromptRaises(
                           Take(UniqueCourses(RelevantCourses(self, subjects, 3, 1)), 5))
                    THEN "none" ELSE "course"
              [] handler = "_handle_semester_planning" -> "planning"
              [] handler = "_handle_career_alignment" -> "career"
              [] OTHER -> "none"

\* what the API may do with each prompt; the career prompt asks for JSON
ApiOutcomes(prompt) ==
    CASE prompt = "none" -> {"not_called"}
      [] prompt = "career" ->
            ApiFailures \cup {"prose", "json_object", "json_partial", "json_scalar"}
      [] OTHER -> ApiFailures \cup {"prose", "empty"}

\* the profiles given to dispatch
DispatchProfiles ==
    [major : {"Economics"}, academic_year : {"2025-2026", "-2026"}, current_semester : {"Fall"},
     target_program : ProfilePrograms,
     completed_courses : {{}, {"ECO205"}, {"ECO213", "FIN101"}},
     available_credits : {5 * MaxBudgetUnits}]

\* the dispatcher with its services, as the handlers see it
Self ==
    [courses |-> courses, keyword_index |-> keyword_index,
     use_mock |-> use_mock, app_env |-> app_env]

\* dispatch with the candidate sort (core courses first is left out, fewer
\* credits first) done on the catalog list itself instead of a new list
DispatchSortingCatalogInPlace ==
    /\ pc = "idle"
    /\ \E q \in DispatchQueries, uc \in DispatchProfiles :
        \E api \in ApiOutcomes(ApiPrompt(Self, q, uc)) :
            /\ call' = [query |-> q, user_context |-> uc, api |-> api]
            /\ result' = dispatch(Self, q, uc, api)
    /\ pc' = "dispatch"
    /\ courses' = SortDescending(courses,
                                 [i \in 1..Len(courses) |-> <<0, 0 - Get(courses[i], "credits", 5)>>])
    /\ UNCHANGED <<keyword_index, use_mock, app_env>>

Dispatch ==
    /\ pc = "idle"
    /\ \E q \in DispatchQueries, uc \in DispatchProfiles :
        \E api \in ApiOutcomes(ApiPrompt(Self, q, uc)) :
            /\ call' = [query |-> q, user_context |-> uc, api |-> api]
            /\ result' = dispatch(Self, q, uc, api)
    /\ pc' = "dispatch"
    /\ UNCHANGED <<courses, keyword_index, use_mock, app_env>>

\* USE_MOCK_AI and APP_ENV are read from the environment (core/config.py)
Init ==
    /\ \E mock \in BOOLEAN, env \in {"development", "production"} : Constructed(mock, env)
    /\ Len(courses) < MaxCatalog

Next == Dispatch \/ Return

Spec == Init /\ [][Next]_vars

(***************************************************************************)
(* Properties of the planning service (SpecPlan).                          *)
(***************************************************************************)
PlanReturned == pc = "generate_semester_plan"

\* C1: every plan returned by generate_semester_plan, from the greedy
\* selection or from the failure path, has total_credits <= available_credits.
C1_TotalCreditsWithinBudget ==
    PlanReturned => result.total_credits <= call.user_context.available_credits

\* C2: every course of the returned plan is not in completed_courses, has all
\* its direct prerequisites in completed_courses, and has semester 0 or the
\* semester number of current_semester (Fall is 1, anything else is 2).
C2_PlanCoursesEligible ==
    PlanReturned =>
        \A c \in Range(result.courses) :
            /\ c.code \notin call.user_context.completed_courses
            /\ \A prereq \in Range(get_prerequisites(courses, c.code)) :
                    prereq \in call.user_context.completed_courses
            /\ Get(c, "semester", 0) \in
                    {0, IF call.user_context.current_semester = "Fall" THEN 1 ELSE 2}

\* C3: no course code appears twice in the courses of the returned plan,
\* across both selection passes.
C3_NoDuplicateCourse ==
    PlanReturned =>
        \A i, j \in 1..Len(result.courses) :
            i # j => result.courses[i].code # result.courses[j].code

\* C3 witness: a greedy plan of two or more courses that left at least 5
\* credits, so the second pass scanned the candidates again
C3_Witness ==
    /\ PlanReturned
    /\ ~PlanningRaises(call.user_context)
    /\ Len(result.courses) >= 2
    /\ call.user_context.available_credits - result.total_credits >= 5

SpecializationReturned == pc = "_determine_specialization"

\* the wealth-management text rule as the specification states it
WealthGoal(target_program) ==
    \/ Contains("family wealth", Lower(target_program))
    \/ Contains("hku mfwm", Lower(target_program))

\* the policy and sustainability text rules
OtherTextRule(target_program) ==
    \E w \in {"policy", "central bank", "sustain", "esg"} :
        Contains(w, Lower(target_program))

\* C8: when the lower-cased target_program contains "family wealth" or the
\* program alias "hku mfwm", specialization selection returns
\* quantitative_finance whatever completed_courses holds.
C8_WealthGoalIsQuantitative ==
    SpecializationReturned /\ WealthGoal(call.target_program)
        => result = "quantitative_finance"

\* C9: when target_program matches no text rule, specialization selection
\* returns policy_analysis only if there are strictly more policy markers than
\* quantitative markers in completed_courses, and quantitative_finance on a tie.
C9_PolicyOnlyWhenStrictlyMore ==
    SpecializationReturned /\ ~WealthGoal(call.target_program)
                           /\ ~OtherTextRule(call.target_program)
        => LET policy_count == MarkerCount(call.completed_courses, policy_courses)
               quantitative_count == MarkerCount(call.completed_courses, quantitative_courses)
           IN  /\ result = "policy_analysis" => policy_count > quantitative_count
               /\ policy_count = quantitative_count \/ policy_count = 0
                    => result = "quantitative_finance"

(***************************************************************************)
(* Properties of the classifier (SpecClassify).                            *)
(***************************************************************************)
\* the fixed order of the intents
IntentOrder ==
    <<"course_explanation", "semester_planning", "career_alignment",
      "prerequisite_check", "workload_assessment">>

\* some trigger substring of the i-th intent occurs in q
IntentHit(i, q) == \E k \in Range(INTENT_KEYWORDS[i].keywords) : Contains(k, q)

\* C4: _detect_intent returns the first intent, in the fixed order, with a
\* trigger substring in the query, and general_query when none has one.
C4_FirstMatchingIntent ==
    pc = "_detect_intent" =>
        \/ /\ result = "general_query"
           /\ \A i \in 1..Len(IntentOrder) : ~IntentHit(i, call.query)
        \/ \E i \in 1..Len(IntentOrder) :
            /\ result = IntentOrder[i]
            /\ INTENT_KEYWORDS[i].intent = IntentOrder[i]
            /\ IntentHit(i, call.query)
            /\ \A j \in 1..(i - 1) : ~IntentHit(j, call.query)

\* C4 witness: triggers of two intents co-occur and the earlier intent is returned
C4_Witness ==
    /\ pc = "_detect_intent"
    /\ IntentHit(1, call.query)
    /\ IntentHit(2, call.query)
    /\ result = "course_explanation"

\* the place of a subject in the declaration order eco, stat, fin, sustain, math
SubjectPlace(s) ==
    CASE s = "eco" -> 1 [] s = "stat" -> 2 [] s = "fin" -> 3 [] s = "sustain" -> 4
      [] s = "math" -> 5

\* some trigger substring of subject s occurs in q
SubjectHit(s, q) == \E k \in Range(SUBJECT_KEYWORDS[s]) : Contains(k, q)

\* C5: _extract_subject_keywords returns exactly the subjects with a trigger
\* substring in the query, each once, in declaration order whatever the order
\* of the words in the query.
C5_SubjectsInDeclarationOrder ==
    pc = "_extract_subject_keywords" =>
        /\ Range(result) = {s \in {"eco", "stat", "fin", "sustain", "math"} :
                                SubjectHit(s, call.query)}
        /\ \A i, j \in 1..Len(result) :
                i < j => SubjectPlace(result[i]) < SubjectPlace(result[j])

\* C5 witness: fin comes before statistics in the query, stat before fin in the result
C5_Witness ==
    /\ pc = "_extract_subject_keywords"
    /\ call.query = "fin statistics"
    /\ result = <<"stat", "fin">>

(***************************************************************************)
(* Properties of dispatch (Spec).                                          *)
(***************************************************************************)
DispatchReturned == pc = "dispatch"

\* the handler a response comes from, read off the response itself
HandledBy(response) ==
    CASE response.type = "course_explanation" -> "_handle_course_explanation"
      [] response.type = "semester_plan" -> "_handle_semester_planning"
      [] response.type = "career_alignment" -> "_handle_career_alignment"
      [] response.type = "prerequisite_check" -> "_handle_prerequisite_check"
      [] response.type = "workload_assessment" -> "_handle_workload_assessment"
      [] response.type = "general_response" -> "_handle_general_query"
      [] response.type = "error" /\ "original_query" \in DOMAIN response -> "dispatch"
      [] response.type = "error" /\ Contains("semester plan", response.message) ->
            "_handle_semester_planning"
      [] response.type = "error" /\ Contains("prerequisites", response.message) ->
            "_handle_prerequisite_check"
      [] response.type = "error" /\ Contains("workload", response.message) ->
            "_handle_workload_assessment"
      [] OTHER -> "unknown"

\* C6: dispatch chooses its handler from the classified intent and whether a
\* subject was extracted: a course_explanation or prerequisite_check query is
\* answered by its own handler when the query names a subject and by the
\* general handler when it names none, even if a later intent's trigger occurs
\* in it; semester_planning, career_alignment and workload_assessment queries
\* are answered by their own handlers with or without subjects; a
\* general_query is answered by the general handler.
C6_HandlerFromIntentAndSubjects ==
    (DispatchReturned /\ IsStr(call.query)) =>
        LET q == Normalize(call.query)
            intent == _detect_intent(q)
            named == _extract_subject_keywords(q) # <<>>
            handler == HandledBy(result)
        IN  /\ intent = "course_explanation" =>
                handler = (IF named THEN "_handle_course_explanation" ELSE "_handle_general_query")
            /\ intent = "prerequisite_check" =>
                handler = (IF named THEN "_handle_prerequisite_check" ELSE "_handle_general_query")
            /\ intent = "semester_planning" => handler = "_handle_semester_planning"
            /\ intent = "career_alignment" => handler = "_handle_career_alignment"
            /\ intent = "workload_assessment" => handler = "_handle_workload_assessment"
            /\ intent = "general_query" => handler = "_handle_general_query"

\* a course_explanation query without a subject that also holds the trigger
\* "plan" of semester_planning, answered by the general handler
C6_Witness ==
    /\ DispatchReturned
    /\ IsStr(call.query)
    /\ _detect_intent(Normalize(call.query)) = "course_explanation"
    /\ _extract_subject_keywords(Normalize(call.query)) = <<>>
    /\ Contains("plan", Normalize(call.query))
    /\ result.type = "general_response"

ResponseTypes ==
    {"course_explanation", "semester_plan", "career_alignment", "prerequisite_check",
     "workload_assessment", "general_response", "error"}

\* C7: for every query and profile, and whether the DeepSeek API call succeeds
\* or fails, dispatch returns a response (it does not raise), and the
\* response has a type field whose value is one of course_explanation,
\* semester_plan, career_alignment, prerequisite_check, workload_assessment,
\* general_response, error.
C7_DispatchAlwaysAnswersWithKnownType ==
    DispatchReturned => ("type" \in DOMAIN result /\ result.type \in ResponseTypes)

\* the API call failed and the mock advice raised as well: dispatch still
\* answered, with an error response
C7_Witness ==
    /\ DispatchReturned
    /\ call.api \in ApiFailures
    /\ result.type = "error"

\* the collaborator failed: the call raised, or (career prompt) its content was not JSON
CollaboratorFailed ==
    /\ DispatchReturned
    /\ \/ call.api \in ApiFailures
       \/ /\ call.api \in ApiSuccesses
          /\ ApiPrompt(Self, call.query, call.user_context) = "career"
          /\ JsonDecodeError(ApiContent(call.api))

\* C10: whenever the call to the DeepSeek API fails (timeout, transport error
\* or malformed output) during a semester_planning, course_explanation or
\* career_alignment dispatch, the response carries a degraded-mode marker: a
\* fallback_mode or a note field.
C10_FailedCollaboratorIsMarked ==
    CollaboratorFailed => ("fallback_mode" \in DOMAIN result \/ "note" \in DOMAIN result)

\* the handler dispatch calls for the query of this call
RoutedTo ==
    Route(_detect_intent(Normalize(call.query)),
          _extract_subject_keywords(Normalize(call.query)))

\* a profile as api/schemas.py declares it: target_program is a str
WellFormedProfile == IsStr(call.user_context.target_program)

\* C11: a failure of the DeepSeek API call never changes the type of the
\* response.  For a well-formed profile, and whether the call succeeds, times
\* out or raises: a semester_planning dispatch returns type semester_plan
\* with a non-empty strategic_advice, a course_explanation dispatch returns
\* type course_explanation with a non-empty explanation, and a
\* career_alignment dispatch returns type career_alignment; none returns
\* type error.
C11_CollaboratorNeverChangesType ==
    (DispatchReturned /\ IsStr(call.query) /\ WellFormedProfile) =>
        /\ RoutedTo = "_handle_semester_planning" =>
            (result.type = "semester_plan" /\ result.strategic_advice # "")
        /\ RoutedTo = "_handle_course_explanation" =>
            (result.type = "course_explanation" /\ result.explanation # "")
        /\ RoutedTo = "_handle_career_alignment" => result.type = "career_alignment"

(***************************************************************************)
(* Properties of the failure path and the degenerate budget (SpecPlan).    *)
(***************************************************************************)
\* C12: generate_semester_plan never raises: it always returns a plan, and
\* whenever a planning step raises for the profile (a target_program that is
\* not a str, an academic_year whose first hyphen segment is empty) the plan
\* is the fixed default plan: exactly two courses, total_credits 10,
\* workload_level light, career_alignment_score 0.6 and a gap_analysis of
\* exactly one note saying a default was used.
C12_FailureGivesDefaultPlan ==
    PlanReturned =>
        /\ {"courses", "total_credits", "workload_level"} \subseteq DOMAIN result
        /\ PlanningRaises(call.user_context) =>
            /\ Len(result.courses) = 2
            /\ result.total_credits = 10
            /\ result.workload_level = "light"
            /\ result.career_alignment_score = Frac(6, 10)
            /\ Len(result.gap_analysis) = 1
            /\ Contains("Default plan used", result.gap_analysis[1])

\* a str target_program with an academic_year that starts with the hyphen:
\* the year key of _assess_workload raised and the default plan came back
C12_Witness ==
    /\ PlanReturned
    /\ IsStr(call.user_context.target_program)
    /\ YearKeyRaises(call.user_context.academic_year)
    /\ Codes(result.courses) = {"ECO213", "ECO217"}

\* C13: the specialization of every plan generate_semester_plan returns, on
\* every path including the failure path, is the name of one of the three
\* configured specialization paths (quantitative_finance, policy_analysis,
\* sustainable_finance).
C13_SpecializationIsConfiguredPath ==
    PlanReturned => result.specialization \in DOMAIN SPECIALIZATION_PATHS

\* C14: for any profile with available_credits 0, whatever its
\* completed_courses, academic_year and target_program, the plan has no
\* courses, total_credits 0, workload_level light and
\* career_alignment_score 0.0.
C14_ZeroBudgetGivesEmptyPlan ==
    (PlanReturned /\ call.user_context.available_credits = 0) =>
        /\ result.courses = <<>>
        /\ result.total_credits = 0
        /\ result.workload_level = "light"
        /\ result.career_alignment_score = Frac(0, 1)

(***************************************************************************)
(* Properties of the course service (SpecCourse).                          *)
(***************************************************************************)
\* C15: for every catalog and every keyword, be it a key of the tag index
\* (whose bucket is returned as is) or a keyword served by the substring
\* match, search_by_keyword returns at most 10 courses.
C15_SearchReturnsAtMostTen ==
    pc = "search_by_keyword" => Len(result) <= 10

\* the prerequisite codes the catalog lists for the course asked about
\* (none when no course has the code)
DirectPrerequisites ==
    LET found == {i \in 1..Len(courses) : Upper(courses[i].code) = Upper(call.course_code)}
        first == CHOOSE i \in found : \A j \in found : i <= j
    IN  IF found = {} THEN {} ELSE Range(Get(courses[first], "prerequisites", <<>>))

\* C16: check_prerequisites_met(code, completed) is true exactly when every
\* direct prerequisite code of the course is a member of completed.  So it is
\* true for a course without prerequisites and for a code of no catalog
\* course, false when a prerequisite is missing even if that prerequisite is
\* no catalog course, blind to the prerequisites of the prerequisites, and
\* unchanged by codes in completed that are not prerequisites of the course.
C16_PrerequisitesMetIffDirectOnesCompleted ==
    pc = "check_prerequisites_met" =>
        (result <=> DirectPrerequisites \subseteq call.completed_courses)

\* ECO302 asks for ECO214, which asks for ECO205: with ECO214 completed and
\* ECO205 not, the test is true
C16_Witness ==
    /\ pc = "check_prerequisites_met"
    /\ call.course_code = "ECO302"
    /\ DirectPrerequisites = {"ECO214"}
    /\ get_prerequisites(courses, "ECO214") = <<"ECO205">>
    /\ "ECO214" \in call.completed_courses
    /\ "ECO205" \notin call.completed_courses
    /\ result = TRUE

FallbackText ==
    LET q == Normalize(call.query)
        uc == call.user_context
        subjects == _extract_subject_keywords(q)
    IN  CASE RoutedTo = "_handle_semester_planning" ->
                _mock_planning_advice(generate_semester_plan(courses, uc), uc, q)
          [] RoutedTo = "_handle_course_explanation" ->
                _mock_course_explanation(
                    subjects, Take(UniqueCourses(RelevantCourses(Self, subjects, 3, 1)), 5), uc, q)
          [] RoutedTo = "_handle_career_alignment" ->
                _mock_career_alignment(subjects, uc.target_program, uc.major, q).gap

\* the generated text of a response
ResponseText ==
    CASE result.type = "semester_plan" -> result.strategic_advice
      [] result.type = "course_explanation" -> result.explanation
      [] result.type = "career_alignment" -> result.competency_gap

IsCore(i) == result[i].code \in Range(PathList(call.specialization, "core_sequence"))

\* C19: the list _get_recommended_courses returns is ordered so that every
\* course of the path's core_sequence comes before every elective, and among
\* courses with the same core-sequence membership a course with more credits
\* comes before a course with fewer credits.
C19_CoreFirstThenCreditsDescending ==
    pc = "_get_recommended_courses" =>
        \A i, j \in 1..Len(result) :
            i < j =>
                /\ IsCore(j) => IsCore(i)
                /\ IsCore(i) = IsCore(j) =>
                    Get(result[i], "credits", 5) >= Get(result[j], "credits", 5)

\* C20: in _filter_courses the second pass can add a course that the first
\* pass did not select: when the service is ready for a call there are a
\* candidate list, a completed set and a budget for which the result of both
\* passes differs from the result of the first pass alone.
C20_SecondPassCanAddCourse ==
    pc = "idle" =>
        \E recommended_courses \in CandidateLists, completed_courses \in CompletedSets,
           available_credits \in Budgets :
            _filter_courses(recommended_courses, completed_courses, available_credits)
                # FirstPass(recommended_courses, completed_courses, 1, <<>>,
                        available_credits).selected_courses

(***************************************************************************)
(* Further properties of specialization selection (SpecPlan).              *)
(***************************************************************************)
\* what the text rules give, tried in the stated order
TextRuleResult(target_program) ==
    IF WealthGoal(target_program) THEN "quantitative_finance"
    ELSE IF Contains("policy", Lower(target_program))
            \/ Contains("central bank", Lower(target_program))
    THEN "policy_analysis"
    ELSE "sustainable_finance"

\* C21: the text rules are tried in the order wealth-management, policy
\* ("policy" or "central bank"), sustainability ("sustain" or "esg") and the
\* first that matches decides: a target_program with both "policy" and "esg"
\* gives policy_analysis, and whenever any text rule matches, the result is
\* the one of that rule for every completed_courses set.
C21_FirstMatchingTextRuleDecides ==
    (SpecializationReturned
        /\ (WealthGoal(call.target_program) \/ OtherTextRule(call.target_program)))
        => result = TextRuleResult(call.target_program)

(***************************************************************************)
(* Properties of workload scoring (SpecPlan, SpecScore).                   *)
(***************************************************************************)
\* the last character of the first hyphen-separated segment, "" when that
\* segment is empty
YearDigit(academic_year) ==
    LET seg == FirstSegment(academic_year)
    IN  IF seg = "" THEN "" ELSE SubSeq(seg, Len(seg), Len(seg))

\* the credit limit as stated: 15 for year digit 1 or 4, 20 for 2 or 3, and
\* 20 for every other string
StatedCreditLimit(academic_year) ==
    IF YearDigit(academic_year) \in {"1", "4"} THEN 15 ELSE 20

\* the level as stated, for a selection of n courses: light when
\* 0.6 * (total_credits / credit_limit) + 0.4 * (mean difficulty / 5) < 0.6,
\* moderate when it is below 0.8, heavy otherwise; the score is held as the
\* exact fraction num / den
StatedLevel(cseq, credit_limit) ==
    LET n == Max(Len(cseq), 1)
        num == 15 * SumOf(cseq, "credits", 5) * n
                + 2 * SumOf(cseq, "difficulty_level", 3) * credit_limit
        den == 25 * credit_limit * n
    IN  IF 5 * num < 3 * den THEN "light"
        ELSE IF 5 * num < 4 * den THEN "moderate"
        ELSE "heavy"

\* C22: for every academic_year string workload scoring completes with a
\* credit limit, 15 or 20 for a year digit 1 to 4 and 20 for every other
\* string (also one with an empty first segment), so an unparseable
\* academic_year never makes generate_semester_plan return the default plan:
\* the plan for a str target_program is not the default plan and its
\* workload_level is the level under the stated credit limit.
C22_UnparseableYearGivesLimit20 ==
    (PlanReturned /\ IsStr(call.user_context.target_program)) =>
        /\ "note" \notin DOMAIN result
        /\ result.workload_level =
                StatedLevel(result.courses, StatedCreditLimit(call.user_context.academic_year))

SameValue(a, b, c, d) == a * d = c * b

\* the number of selected courses whose code is in the path's core_sequence
CoreHits ==
    Cardinality({i \in 1..Len(call.courses) :
        call.courses[i].code \in Range(PathList(call.specialization, "core_sequence"))})

\* the number of selected courses with a fin, stat or math tag
QuantHits ==
    Cardinality({i \in 1..Len(call.courses) :
        \E t \in Range(Get(call.courses[i], "tags", <<>>)) : t \in {"fin", "stat", "math"}})

\* C24: _calculate_career_alignment returns a value in [0,1] for every
\* selection: 0.0 for an empty selection; for a target_program containing
\* "HKU MFWM", 0.6 * coreCoverage + 0.4 * (selected courses with a fin, stat
\* or math tag / selected courses); otherwise coreCoverage, the number of
\* selected courses whose code is in the path's core_sequence divided by the
\* length of core_sequence (0 for an empty core_sequence).
C24_AlignmentValue ==
    pc = "_calculate_career_alignment" =>
        LET n == Len(call.courses)
            len == Len(PathList(call.specialization, "core_sequence"))
        IN  /\ 0 <= result.num /\ result.num <= result.den /\ result.den > 0
            /\ n = 0 => result.num = 0
            /\ (n > 0 /\ len = 0 /\ ~Contains("HKU MFWM", call.target_program))
                    => result.num = 0
            /\ (n > 0 /\ len > 0 /\ ~Contains("HKU MFWM", call.target_program))
                    => SameValue(result.num, result.den, CoreHits, len)
            /\ (n > 0 /\ len = 0 /\ Contains("HKU MFWM", call.target_program))
                    => SameValue(result.num, result.den, 2 * QuantHits, 5 * n)
            /\ (n > 0 /\ len > 0 /\ Contains("HKU MFWM", call.target_program))
                    => SameValue(result.num, result.den,
                                 3 * CoreHits * n + 2 * QuantHits * len, 5 * len * n)

\* a blended score strictly between the coverage and 1: core courses and
\* quantitative tags both counted
C24_Witness ==
    /\ pc = "_calculate_career_alignment"
    /\ Contains("HKU MFWM", call.target_program)
    /\ Len(call.courses) = 3
    /\ CoreHits = 2
    /\ QuantHits = 1
    /\ result = Frac(28, 75)

\* C25: the wealth-management goal is recognised by the same test in every
\* planning step: career-alignment scoring uses the quantitative-tag blend
\* exactly when target_program, lower-cased, contains "family wealth" or the
\* program alias, as the text rule of specialization selection is stated; so
\* two target_program strings that differ only in letter case are scored by
\* the same formula.
C25_SameWealthGoalTestInScoring ==
    (pc = "_calculate_career_alignment" /\ call.courses # <<>>) =>
        LET n == Len(call.courses)
            len == Max(Len(PathList(call.specialization, "core_sequence")), 1)
        IN  IF WealthGoal(call.target_program)
            THEN SameValue(result.num, result.den,
                           3 * CoreHits * n + 2 * QuantHits * len, 5 * len * n)
            ELSE SameValue(result.num, result.den, CoreHits, len)

(***************************************************************************)
(* Properties of gap analysis (SpecScore).                                 *)
(***************************************************************************)
\* the places of core_sequence whose code is neither completed nor selected
MissingPlaces ==
    LET core == PathList(call.specialization, "core_sequence")
    IN  {i \in 1..Len(core) :
            /\ core[i] \notin call.completed_courses
            /\ \A j \in 1..Len(call.selected_courses) : call.selected_courses[j].code # core[i]}

\* the least place of a non-empty set of places
Least(S) == CHOOSE i \in S : \A j \in S : i <= j

\* the missing-core entry as stated, for a non-empty MissingPlaces
StatedMissingEntry ==
    LET core == PathList(call.specialization, "core_sequence")
        first == Least(MissingPlaces)
        rest == MissingPlaces \ {first}
    IN  "Missing core courses: " \o core[first]
        \o (IF rest # {} THEN ", " \o core[Least(rest)] ELSE "")
        \o (IF Cardinality(MissingPlaces) > 2 THEN " and others" ELSE "")

\* the entries of the result that are missing-core entries
MissingEntries ==
    {i \in 1..Len(result) : SubSeq(result[i], 1, 21) = "Missing core courses:"}

\* C26: _identify_gaps puts a missing-core entry in gap_analysis exactly
\* when some code of the path's core_sequence is neither in completed_courses
\* nor among the selected courses; the entry names the first two such codes
\* in core_sequence order and ends with " and others" exactly when more than
\* two are missing; so gap_analysis is non-empty whenever the whole core
\* sequence is not covered.
C26_MissingCoreEntry ==
    pc = "_identify_gaps" =>
        /\ MissingEntries # {} <=> MissingPlaces # {}
        /\ Cardinality(MissingEntries) <= 1
        /\ MissingPlaces # {} =>
            /\ result # <<>>
            /\ result[1] = StatedMissingEntry

\* exactly two core codes are missing, one is completed and two are
\* selected: both are named and nothing follows
C26_Witness ==
    /\ pc = "_identify_gaps"
    /\ call.specialization = "quantitative_finance"
    /\ call.completed_courses = {"ECO205"}
    /\ Codes(call.selected_courses) = {"ECO214", "ECO305"}
    /\ result[1] = "Missing core courses: ECO302, FIN301"

(***************************************************************************)
(* Properties of the greedy selection (SpecScore).                         *)
(***************************************************************************)
\* the budget left when _filter_courses returns
RemainingBudget == call.available_credits - SumOf(result, "credits", 5)

\* the candidates that are neither completed nor selected
LeftOut ==
    {i \in 1..Len(call.recommended_courses) :
        /\ call.recommended_courses[i].code \notin call.completed_courses
        /\ \A j \in 1..Len(result) : result[j].code # call.recommended_courses[i].code}

\* C30: the greedy selection is maximal: when _filter_courses returns, no
\* candidate that is neither in completed_courses nor selected has credits
\* less than or equal to the remaining budget (available_credits minus the
\* credits of the selected courses), for every candidate order, completed
\* set and non-negative budget.
C30_GreedySelectionIsMaximal ==
    pc = "_filter_courses" =>
        \A i \in LeftOut :
            Get(call.recommended_courses[i], "credits", 5) > RemainingBudget

\* a course was selected, 5 credits or more are left, so the second pass
\* ran, and a candidate of 10 credits is left out
C30_Witness ==
    /\ pc = "_filter_courses"
    /\ result # <<>>
    /\ RemainingBudget >= 5
    /\ LeftOut # {}

(***************************************************************************)
(* Properties of the career-alignment, prerequisite and error responses    *)
(* (Spec).                                                                 *)
(***************************************************************************)
\* the five structured fields of a career_alignment response
StructuredFields ==
    {"competency_gap", "recommended_pathway", "hku_alignment_score", "key_modules",
     "industry_outlook"}

\* the collaborator's output is unusable: the call failed, the text is not
\* JSON, or it is JSON that is not an object with all five keys
UnusableAnalysis == call.api \in ApiFailures \cup {"prose", "json_partial", "json_scalar"}

\* the fixed template for the career goal of this call
Template ==
    _mock_career_alignment(<<>>, Get(call.user_context, "target_program", "graduate studies"),
                           "Economics", "")

\* C27: every response of type career_alignment carries the five structured
\* fields (competency gap, recommended pathway, alignment score, key modules,
\* industry outlook); when the collaborator's output is unusable, whether the
\* call failed, the text is not JSON, or the text is JSON that is not an
\* object with all five keys, the five values are those of one of the two
\* fixed templates, chosen by whether the career goal mentions the
\* wealth-management program.  Stated here for a profile whose
\* target_program is a str.
C27_CareerAlignmentAlwaysStructured ==
    (DispatchReturned /\ WellFormedProfile /\ result.type = "career_alignment") =>
        /\ StructuredFields \subseteq DOMAIN result
        /\ UnusableAnalysis =>
            /\ result.competency_gap = Template.gap
            /\ result.recommended_pathway = Template.pathway
            /\ result.hku_alignment_score = Template.alignment_score
            /\ result.key_modules = Template.key_modules
            /\ result.industry_outlook = Template.industry_outlook

\* the gathered courses: the first two of search_by_keyword for each
\* extracted subject
Gathered == RelevantCourses(Self, _extract_subject_keywords(Normalize(call.query)), 2, 1)

\* the direct prerequisites of a course that are not in completed_courses
Lacking(course) ==
    Range(Get(course, "prerequisites", <<>>)) \ call.user_context.completed_courses

\* C28: in a prerequisite_check response all_prereqs_satisfied is true
\* exactly when missing_prerequisites is empty, which is exactly when every
\* gathered course has all its direct prerequisites in completed_courses;
\* each entry of missing_prerequisites names one gathered course with at
\* least one missing prerequisite and lists exactly its prerequisites that
\* are not in completed_courses, and no course is reported in more than one
\* entry.
C28_PrerequisiteReport ==
    (DispatchReturned /\ result.type = "prerequisite_check") =>
        LET entries == result.missing_prerequisites
        IN  /\ result.all_prereqs_satisfied <=> entries = <<>>
            /\ entries = <<>> <=> \A g \in Range(Gathered) : Lacking(g) = {}
            /\ \A i \in 1..Len(entries) :
                /\ entries[i].missing_prerequisites # <<>>
                /\ \E g \in Range(Gathered) :
                    /\ g.code = entries[i].course
                    /\ Range(entries[i].missing_prerequisites) = Lacking(g)
            /\ \A i, j \in 1..Len(entries) :
                i # j => entries[i].course # entries[j].course

\* C29: errors raised while handling a request are converted to an error
\* response only at the dispatch boundary: every response of type error
\* returned by dispatch carries original_query equal to the query it was
\* called with, and carries the error detail text only when the application
\* environment is development (the detail is absent or null otherwise).
C29_ErrorsOnlyFromDispatchBoundary ==
    (DispatchReturned /\ result.type = "error") =>
        /\ "original_query" \in DOMAIN result
        /\ result.original_query = call.query
        /\ app_env # "development" =>
            ("error_details" \notin DOMAIN result \/ result.error_details = NoneStr)

=============================================================================
